---------------------------- MODULE Spec2Model ----------------------------
(***************************************************************************)
(* A model of ieee_md2docx.py: the markdown scanner (parse_markdown), the  *)
(* LaTeX transliterator (resolve_latex, _resolve_latex_commands), the      *)
(* paragraph and section-break constructors, and build_document, which     *)
(* appends block elements to the body of a python-docx document.           *)
(*                                                                         *)
(* Text is a sequence of characters, each character a one-element string;  *)
(* a non-ASCII character is written as its code point, "U+03B1".           *)
(***************************************************************************)
EXTENDS Integers, Sequences, FiniteSets, TLC

(***************************************************************************)
(* Characters                                                              *)
(***************************************************************************)
BS == "\\"
NBSP == "U+00A0"

Lower == {"a","b","c","d","e","f","g","h","i","j","k","l","m",
          "n","o","p","q","r","s","t","u","v","w","x","y","z"}
Upper == {"A","B","C","D","E","F","G","H","I","J","K","L","M",
          "N","O","P","Q","R","S","T","U","V","W","X","Y","Z"}
Digit == {"0","1","2","3","4","5","6","7","8","9"}
\* the regex class [a-zA-Z]
Letter == Lower \cup Upper
\* the regex class \s, over the characters a stripped line can hold
Space == {" "}

\* s[i..i+Len(pat)-1] = pat, for a non-empty pat
StartsWithAt(s, i, pat) ==
  /\ i + Len(pat) - 1 <= Len(s)
  /\ s[i] = pat[1]
  /\ SubSeq(s, i, i + Len(pat) - 1) = pat

\* the least j in from..Len(s) with s[j] = c, or 0
RECURSIVE FirstIndex(_, _, _)
FirstIndex(s, from, c) ==
  IF from > Len(s) THEN 0
  ELSE IF s[from] = c THEN from
  ELSE FirstIndex(s, from + 1, c)

\* str.replace(old, new): left to right, non-overlapping
RECURSIVE ReplaceFrom(_, _, _, _)
ReplaceFrom(s, i, old, new) ==
  IF i > Len(s) THEN << >>
  ELSE IF StartsWithAt(s, i, old)
       THEN new \o ReplaceFrom(s, i + Len(old), old, new)
       ELSE << s[i] >> \o ReplaceFrom(s, i + 1, old, new)

Replace(s, old, new) == ReplaceFrom(s, 1, old, new)

(***************************************************************************)
(* The substitution tables, in source order                                *)
(***************************************************************************)
LATEX_GLYPHS ==
  << << <<"\\", "a", "l", "p", "h", "a">>, <<"U+03B1">> >>,
     << <<"\\", "b", "e", "t", "a">>, <<"U+03B2">> >>,
     << <<"\\", "g", "a", "m", "m", "a">>, <<"U+03B3">> >>,
     << <<"\\", "d", "e", "l", "t", "a">>, <<"U+03B4">> >>,
     << <<"\\", "e", "p", "s", "i", "l", "o", "n">>, <<"U+03B5">> >>,
     << <<"\\", "v", "a", "r", "e", "p", "s", "i", "l", "o", "n">>, <<"U+03B5">> >>,
     << <<"\\", "z", "e", "t", "a">>, <<"U+03B6">> >>,
     << <<"\\", "e", "t", "a">>, <<"U+03B7">> >>,
     << <<"\\", "t", "h", "e", "t", "a">>, <<"U+03B8">> >>,
     << <<"\\", "i", "o", "t", "a">>, <<"U+03B9">> >>,
     << <<"\\", "k", "a", "p", "p", "a">>, <<"U+03BA">> >>,
     << <<"\\", "l", "a", "m", "b", "d", "a">>, <<"U+03BB">> >>,
     << <<"\\", "m", "u">>, <<"U+03BC">> >>,
     << <<"\\", "n", "u">>, <<"U+03BD">> >>,
     << <<"\\", "x", "i">>, <<"U+03BE">> >>,
     << <<"\\", "p", "i">>, <<"U+03C0">> >>,
     << <<"\\", "r", "h", "o">>, <<"U+03C1">> >>,
     << <<"\\", "s", "i", "g", "m", "a">>, <<"U+03C3">> >>,
     << <<"\\", "t", "a", "u">>, <<"U+03C4">> >>,
     << <<"\\", "u", "p", "s", "i", "l", "o", "n">>, <<"U+03C5">> >>,
     << <<"\\", "p", "h", "i">>, <<"U+03C6">> >>,
     << <<"\\", "v", "a", "r", "p", "h", "i">>, <<"U+03C6">> >>,
     << <<"\\", "c", "h", "i">>, <<"U+03C7">> >>,
     << <<"\\", "p", "s", "i">>, <<"U+03C8">> >>,
     << <<"\\", "o", "m", "e", "g", "a">>, <<"U+03C9">> >>,
     << <<"\\", "G", "a", "m", "m", "a">>, <<"U+0393">> >>,
     << <<"\\", "D", "e", "l", "t", "a">>, <<"U+0394">> >>,
     << <<"\\", "T", "h", "e", "t", "a">>, <<"U+0398">> >>,
     << <<"\\", "L", "a", "m", "b", "d", "a">>, <<"U+039B">> >>,
     << <<"\\", "X", "i">>, <<"U+039E">> >>,
     << <<"\\", "P", "i">>, <<"U+03A0">> >>,
     << <<"\\", "S", "i", "g", "m", "a">>, <<"U+03A3">> >>,
     << <<"\\", "P", "h", "i">>, <<"U+03A6">> >>,
     << <<"\\", "P", "s", "i">>, <<"U+03A8">> >>,
     << <<"\\", "O", "m", "e", "g", "a">>, <<"U+03A9">> >>,
     << <<"\\", "c", "d", "o", "t">>, <<"U+00B7">> >>,
     << <<"\\", "t", "i", "m", "e", "s">>, <<"U+00D7">> >>,
     << <<"\\", "d", "i", "v">>, <<"U+00F7">> >>,
     << <<"\\", "p", "m">>, <<"U+00B1">> >>,
     << <<"\\", "m", "p">>, <<"U+2213">> >>,
     << <<"\\", "l", "e", "q">>, <<"U+2264">> >>,
     << <<"\\", "g", "e", "q">>, <<"U+2265">> >>,
     << <<"\\", "n", "e", "q">>, <<"U+2260">> >>,
     << <<"\\", "a", "p", "p", "r", "o", "x">>, <<"U+2248">> >>,
     << <<"\\", "e", "q", "u", "i", "v">>, <<"U+2261">> >>,
     << <<"\\", "s", "i", "m">>, <<"U+223C">> >>,
     << <<"\\", "p", "r", "o", "p", "t", "o">>, <<"U+221D">> >>,
     << <<"\\", "i", "n">>, <<"U+2208">> >>,
     << <<"\\", "n", "o", "t", "i", "n">>, <<"U+2209">> >>,
     << <<"\\", "s", "u", "b", "s", "e", "t">>, <<"U+2282">> >>,
     << <<"\\", "s", "u", "p", "s", "e", "t">>, <<"U+2283">> >>,
     << <<"\\", "c", "u", "p">>, <<"U+222A">> >>,
     << <<"\\", "c", "a", "p">>, <<"U+2229">> >>,
     << <<"\\", "e", "m", "p", "t", "y", "s", "e", "t">>, <<"U+2205">> >>,
     << <<"\\", "i", "n", "f", "t", "y">>, <<"U+221E">> >>,
     << <<"\\", "p", "a", "r", "t", "i", "a", "l">>, <<"U+2202">> >>,
     << <<"\\", "n", "a", "b", "l", "a">>, <<"U+2207">> >>,
     << <<"\\", "f", "o", "r", "a", "l", "l">>, <<"U+2200">> >>,
     << <<"\\", "e", "x", "i", "s", "t", "s">>, <<"U+2203">> >>,
     << <<"\\", "r", "i", "g", "h", "t", "a", "r", "r", "o", "w">>, <<"U+2192">> >>,
     << <<"\\", "l", "e", "f", "t", "a", "r", "r", "o", "w">>, <<"U+2190">> >>,
     << <<"\\", "R", "i", "g", "h", "t", "a", "r", "r", "o", "w">>, <<"U+21D2">> >>,
     << <<"\\", "L", "e", "f", "t", "a", "r", "r", "o", "w">>, <<"U+21D0">> >>,
     << <<"\\", "l", "e", "f", "t", "r", "i", "g", "h", "t", "a", "r", "r", "o", "w">>, <<"U+2194">> >>,
     << <<"\\", "L", "e", "f", "t", "r", "i", "g", "h", "t", "a", "r", "r", "o", "w">>, <<"U+21D4">> >>,
     << <<"\\", "m", "a", "p", "s", "t", "o">>, <<"U+21A6">> >>,
     << <<"\\", "i", "n", "t">>, <<"U+222B">> >>,
     << <<"\\", "i", "i", "n", "t">>, <<"U+222C">> >>,
     << <<"\\", "i", "i", "i", "n", "t">>, <<"U+222D">> >>,
     << <<"\\", "o", "i", "n", "t">>, <<"U+222E">> >>,
     << <<"\\", "s", "u", "m">>, <<"U+2211">> >>,
     << <<"\\", "p", "r", "o", "d">>, <<"U+220F">> >>,
     << <<"\\", "l", "d", "o", "t", "s">>, <<"U+2026">> >>,
     << <<"\\", "d", "o", "t", "s">>, <<"U+2026">> >>,
     << <<"\\", "c", "d", "o", "t", "s">>, <<"U+22EF">> >>,
     << <<"\\", "p", "r", "i", "m", "e">>, <<"U+2032">> >>,
     << <<"\\", "n", "e", "g">>, <<"U+00AC">> >>,
     << <<"\\", "w", "e", "d", "g", "e">>, <<"U+2227">> >>,
     << <<"\\", "v", "e", "e">>, <<"U+2228">> >>,
     << <<"\\", "o", "p", "l", "u", "s">>, <<"U+2295">> >>,
     << <<"\\", "o", "t", "i", "m", "e", "s">>, <<"U+2297">> >>,
     << <<"\\", "d", "a", "g", "g", "e", "r">>, <<"U+2020">> >>,
     << <<"\\", "d", "d", "a", "g", "g", "e", "r">>, <<"U+2021">> >>,
     << <<"\\", "e", "l", "l">>, <<"U+2113">> >>,
     << <<"\\", "h", "b", "a", "r">>, <<"U+210F">> >>,
     << <<"\\", "q", "u", "a", "d">>, <<"U+2003">> >>,
     << <<"\\", "q", "q", "u", "a", "d">>, <<"U+2003", "U+2003">> >> >>

LATEX_FUNCTIONS ==
  << <<"\\", "t", "a", "n", "h">>,
     <<"\\", "c", "o", "s", "h">>,
     <<"\\", "s", "i", "n", "h">>,
     <<"\\", "s", "i", "n">>,
     <<"\\", "c", "o", "s">>,
     <<"\\", "t", "a", "n">>,
     <<"\\", "l", "o", "g">>,
     <<"\\", "l", "n">>,
     <<"\\", "e", "x", "p">>,
     <<"\\", "l", "i", "m">>,
     <<"\\", "m", "a", "x">>,
     <<"\\", "m", "i", "n">>,
     <<"\\", "s", "u", "p">>,
     <<"\\", "i", "n", "f">>,
     <<"\\", "d", "e", "t">>,
     <<"\\", "d", "i", "m">>,
     <<"\\", "k", "e", "r">>,
     <<"\\", "a", "r", "g">>,
     <<"\\", "d", "e", "g">>,
     <<"\\", "g", "c", "d">>,
     <<"\\", "h", "o", "m">>,
     <<"\\", "s", "e", "c">>,
     <<"\\", "c", "s", "c">>,
     <<"\\", "c", "o", "t">>,
     <<"\\", "a", "r", "c", "s", "i", "n">>,
     <<"\\", "a", "r", "c", "c", "o", "s">>,
     <<"\\", "a", "r", "c", "t", "a", "n">> >>

MATHBB ==
  ("A" :> "U+1D538") @@
  ("B" :> "U+1D539") @@
  ("C" :> "U+2102") @@
  ("D" :> "U+1D53B") @@
  ("E" :> "U+1D53C") @@
  ("F" :> "U+1D53D") @@
  ("G" :> "U+1D53E") @@
  ("H" :> "U+210D") @@
  ("I" :> "U+1D540") @@
  ("J" :> "U+1D541") @@
  ("K" :> "U+1D542") @@
  ("L" :> "U+1D543") @@
  ("M" :> "U+1D544") @@
  ("N" :> "U+2115") @@
  ("O" :> "U+1D546") @@
  ("P" :> "U+2119") @@
  ("Q" :> "U+211A") @@
  ("R" :> "U+211D") @@
  ("S" :> "U+1D54A") @@
  ("T" :> "U+1D54B") @@
  ("U" :> "U+1D54C") @@
  ("V" :> "U+1D54D") @@
  ("W" :> "U+1D54E") @@
  ("X" :> "U+1D54F") @@
  ("Y" :> "U+1D550") @@
  ("Z" :> "U+2124")

(***************************************************************************)
(* _resolve_latex_commands                                                 *)
(***************************************************************************)
\* re.sub(r'\\\\([a-zA-Z])', r'\\\1', text)
RECURSIVE NormalizeFrom(_, _)
NormalizeFrom(s, i) ==
  IF i > Len(s) THEN << >>
  ELSE IF /\ i + 2 <= Len(s)
          /\ s[i] = BS /\ s[i + 1] = BS /\ s[i + 2] \in Letter
       THEN << BS, s[i + 2] >> \o NormalizeFrom(s, i + 3)
       ELSE << s[i] >> \o NormalizeFrom(s, i + 1)

NormalizeBackslashes(s) == NormalizeFrom(s, 1)

TextOpen == << BS, "t", "e", "x", "t", "{" >>

\* re.sub(r'\\text\{([^}]*)\}', r'\1', text)
RECURSIVE TextFrom(_, _)
TextFrom(s, i) ==
  IF i > Len(s) THEN << >>
  ELSE LET close == IF StartsWithAt(s, i, TextOpen)
                    THEN FirstIndex(s, i + Len(TextOpen), "}")
                    ELSE 0
       IN  IF close # 0
           THEN SubSeq(s, i + Len(TextOpen), close - 1) \o TextFrom(s, close + 1)
           ELSE << s[i] >> \o TextFrom(s, i + 1)

ResolveText(s) == TextFrom(s, 1)

MathbbOpen == << BS, "m", "a", "t", "h", "b", "b", "{" >>

\* _MATHBB.get(char, char)
mathbb_replace(char) ==
  IF char \in DOMAIN MATHBB THEN MATHBB[char] ELSE char

\* re.sub(r'\\mathbb\{([A-Z])\}', mathbb_replace, text)
RECURSIVE MathbbFrom(_, _)
MathbbFrom(s, i) ==
  IF i > Len(s) THEN << >>
  ELSE LET k == i + Len(MathbbOpen)
       IN  IF /\ StartsWithAt(s, i, MathbbOpen)
              /\ k + 1 <= Len(s)
              /\ s[k] \in Upper
              /\ s[k + 1] = "}"
           THEN << mathbb_replace(s[k]) >> \o MathbbFrom(s, k + 2)
           ELSE << s[i] >> \o MathbbFrom(s, i + 1)

ResolveMathbb(s) == MathbbFrom(s, 1)

FracOpen == << BS, "f", "r", "a", "c", "{" >>

\* (?:[^{}]|\{[^{}]*\})* from position i: the position after the longest
\* run of items, an item being a non-brace character or a brace group
\* holding no brace.  The run is what the greedy star matches: it ends at a
\* "}" or at a "{" that opens no such group, and giving an item back never
\* exposes a "}".
RECURSIVE BraceFree(_, _)
BraceFree(s, i) ==
  IF i > Len(s) \/ s[i] \in {"{", "}"} THEN i ELSE BraceFree(s, i + 1)

RECURSIVE OperandEnd(_, _)
OperandEnd(s, i) ==
  IF i > Len(s) THEN i
  ELSE IF s[i] = "}" THEN i
  ELSE IF s[i] = "{"
       THEN LET j == BraceFree(s, i + 1)
            IN  IF j <= Len(s) /\ s[j] = "}" THEN OperandEnd(s, j + 1) ELSE i
       ELSE OperandEnd(s, i + 1)

\* re.sub(r'\\frac\{(OPERAND)\}\{(OPERAND)\}', r'(\1)/(\2)', text)
RECURSIVE FracFrom(_, _)
FracFrom(s, i) ==
  IF i > Len(s) THEN << >>
  ELSE LET a  == i + Len(FracOpen)
           ae == OperandEnd(s, a)
           b  == ae + 2
           be == OperandEnd(s, b)
           ok == /\ StartsWithAt(s, i, FracOpen)
                 /\ StartsWithAt(s, ae, << "}", "{" >>)
                 /\ be <= Len(s) /\ s[be] = "}"
       IN  IF ok
           THEN << "(" >> \o SubSeq(s, a, ae - 1) \o << ")", "/", "(" >>
                \o SubSeq(s, b, be - 1) \o << ")" >> \o FracFrom(s, be + 1)
           ELSE << s[i] >> \o FracFrom(s, i + 1)

ResolveFrac(s) == FracFrom(s, 1)

\* re.sub(re.escape(func) + r'(?![a-zA-Z])', name, text), name = func[1:]
RECURSIVE FunctionFrom(_, _, _)
FunctionFrom(s, i, func) ==
  IF i > Len(s) THEN << >>
  ELSE LET k == i + Len(func)
       IN  IF StartsWithAt(s, i, func) /\ (k > Len(s) \/ s[k] \notin Letter)
           THEN Tail(func) \o FunctionFrom(s, k, func)
           ELSE << s[i] >> \o FunctionFrom(s, i + 1, func)

\* Every command of the two tables begins with a backslash, so a text
\* holding none is left as it is by every remaining pass.
HasBackslash(s) == \E i \in DOMAIN s : s[i] = BS

\* for func in LATEX_FUNCTIONS: ..., the set visited in the order funcs
RECURSIVE ResolveFunctions(_, _)
ResolveFunctions(s, funcs) ==
  IF funcs = << >> \/ ~HasBackslash(s) THEN s
  ELSE ResolveFunctions(FunctionFrom(s, 1, Head(funcs)), Tail(funcs))

\* sorted(LATEX_GLYPHS.keys(), key=len, reverse=True): a stable sort, so
\* the commands of one length keep the order of the table
RECURSIVE GlyphsOfLength(_)
GlyphsOfLength(n) ==
  IF n = 0 THEN << >>
  ELSE SelectSeq(LATEX_GLYPHS, LAMBDA g : Len(g[1]) = n) \o GlyphsOfLength(n - 1)

MaxGlyphLen ==
  CHOOSE n \in 1..32 :
    /\ \E i \in DOMAIN LATEX_GLYPHS : Len(LATEX_GLYPHS[i][1]) = n
    /\ \A i \in DOMAIN LATEX_GLYPHS : Len(LATEX_GLYPHS[i][1]) <= n

SortedGlyphs == GlyphsOfLength(MaxGlyphLen)

\* for cmd in sorted(...): text = text.replace(cmd, LATEX_GLYPHS[cmd])
RECURSIVE ResolveGlyphs(_, _)
ResolveGlyphs(s, glyphs) ==
  IF glyphs = << >> \/ ~HasBackslash(s) THEN s
  ELSE ResolveGlyphs(Replace(s, Head(glyphs)[1], Head(glyphs)[2]), Tail(glyphs))

_resolve_latex_commands(text, funcs) ==
  ResolveGlyphs(
    ResolveFunctions(
      ResolveFrac(ResolveMathbb(ResolveText(NormalizeBackslashes(text)))),
      funcs),
    SortedGlyphs)

(***************************************************************************)
(* resolve_latex                                                           *)
(***************************************************************************)
\* inner.replace(" ", NBSP)
SpacesToNbsp(s) == [i \in DOMAIN s |-> IF s[i] = " " THEN NBSP ELSE s[i]]

\* resolve_inline_math(m)
resolve_inline_math(inner, funcs) ==
  SpacesToNbsp(_resolve_latex_commands(inner, funcs))

\* a "$" at i that neither follows nor precedes another "$"
LoneDollar(s, i) ==
  /\ i >= 1 /\ i <= Len(s) /\ s[i] = "$"
  /\ (i = 1 \/ s[i - 1] # "$")
  /\ (i = Len(s) \/ s[i + 1] # "$")

\* the closing "$" the lazy (.+?) stops at: the first lone "$" from j on
RECURSIVE CloseDollar(_, _)
CloseDollar(s, j) ==
  IF j > Len(s) THEN 0
  ELSE IF LoneDollar(s, j) THEN j
  ELSE CloseDollar(s, j + 1)

\* re.sub(r'(?<!\$)\$(?!\$)(.+?)(?<!\$)\$(?!\$)', resolve_inline_math, text)
RECURSIVE InlineMathFrom(_, _, _)
InlineMathFrom(s, i, funcs) ==
  IF i > Len(s) THEN << >>
  ELSE LET close == IF LoneDollar(s, i) THEN CloseDollar(s, i + 2) ELSE 0
       IN  IF close # 0
           THEN resolve_inline_math(SubSeq(s, i + 1, close - 1), funcs)
                \o InlineMathFrom(s, close + 1, funcs)
           ELSE << s[i] >> \o InlineMathFrom(s, i + 1, funcs)

resolve_latex(text, funcs) ==
  _resolve_latex_commands(
    InlineMathFrom(NormalizeBackslashes(text), 1, funcs), funcs)

(***************************************************************************)
(* strip_markdown and the string helpers of the scanner                    *)
(***************************************************************************)
\* the regex class \s and the characters str.strip() removes, over the
\* characters the model's texts hold (U+2003 is the em-space of \quad)
WhiteSpace == {" ", NBSP, "U+2003"}

RECURSIVE LStrip(_)
LStrip(s) ==
  IF s # << >> /\ Head(s) \in WhiteSpace THEN LStrip(Tail(s)) ELSE s

RECURSIVE RStrip(_)
RStrip(s) ==
  IF s # << >> /\ s[Len(s)] \in WhiteSpace
  THEN RStrip(SubSeq(s, 1, Len(s) - 1)) ELSE s

\* str.strip()
Strip(s) == RStrip(LStrip(s))

\* s[i:] of Python, i counted from 0
From(s, i) == SubSeq(s, i + 1, Len(s))

\* the least j >= from with s[j..] starting with pat, or 0
RECURSIVE FirstAt(_, _, _)
FirstAt(s, from, pat) ==
  IF from + Len(pat) - 1 > Len(s) THEN 0
  ELSE IF StartsWithAt(s, from, pat) THEN from
  ELSE FirstAt(s, from + 1, pat)

\* re.sub(D + r'(.+?)' + D, r'\1', text) for a literal delimiter D: the lazy
\* group holds at least one character and ends at the first D after it
RECURSIVE UnwrapFrom(_, _, _)
UnwrapFrom(s, i, d) ==
  IF i > Len(s) THEN << >>
  ELSE LET close == IF StartsWithAt(s, i, d)
                    THEN FirstAt(s, i + Len(d) + 1, d)
                    ELSE 0
       IN  IF close # 0
           THEN SubSeq(s, i + Len(d), close - 1)
                \o UnwrapFrom(s, close + Len(d), d)
           ELSE << s[i] >> \o UnwrapFrom(s, i + 1, d)

strip_markdown(text) ==
  UnwrapFrom(UnwrapFrom(UnwrapFrom(text, 1, << "*", "*" >>), 1, << "*" >>),
             1, << "U+0060" >>)

\* " ".join(parts)
RECURSIVE JoinSpace(_)
JoinSpace(parts) ==
  IF parts = << >> THEN << >>
  ELSE IF Len(parts) = 1 THEN parts[1]
  ELSE parts[1] \o << " " >> \o JoinSpace(Tail(parts))

ToLower(c) ==
  CASE c = "A" -> "a" [] c = "B" -> "b" [] c = "C" -> "c" [] c = "D" -> "d"
    [] c = "E" -> "e" [] c = "F" -> "f" [] c = "G" -> "g" [] c = "H" -> "h"
    [] c = "I" -> "i" [] c = "J" -> "j" [] c = "K" -> "k" [] c = "L" -> "l"
    [] c = "M" -> "m" [] c = "N" -> "n" [] c = "O" -> "o" [] c = "P" -> "p"
    [] c = "Q" -> "q" [] c = "R" -> "r" [] c = "S" -> "s" [] c = "T" -> "t"
    [] c = "U" -> "u" [] c = "V" -> "v" [] c = "W" -> "w" [] c = "X" -> "x"
    [] c = "Y" -> "y" [] c = "Z" -> "z" [] OTHER -> c

LowerCase(s) == [k \in DOMAIN s |-> ToLower(s[k])]

\* the position after the longest run of characters of class cls from i
RECURSIVE SkipClass(_, _, _)
SkipClass(s, i, cls) ==
  IF i <= Len(s) /\ s[i] \in cls THEN SkipClass(s, i + 1, cls) ELSE i

\* re.match(r"^##\s+" + word, trimmed, re.IGNORECASE), word in lower case
HeadingNamed(t, word) ==
  LET k == SkipClass(t, 3, WhiteSpace)
  IN  /\ StartsWithAt(t, 1, << "#", "#" >>)
      /\ k > 3
      /\ StartsWithAt(LowerCase(t), k, word)

\* re.match(r"^---+$", trimmed)
IsRule(t) == Len(t) >= 3 /\ \A k \in DOMAIN t : t[k] = "-"

\* re.match(r"^\[(\d+)\]", s): the position of the "]", or 0
RefNumberEnd(t) ==
  LET k == SkipClass(t, 2, Digit)
  IN  IF /\ Len(t) >= 1 /\ t[1] = "[" /\ k > 2
         /\ k <= Len(t) /\ t[k] = "]"
      THEN k ELSE 0

\* re.match(r"^D(.+?)D\s*$", trimmed) for the delimiter D of a trimmed line:
\* group 1, or << >> when there is no match.  The lazy group ends before
\* the first D that only white space follows; a trimmed line ends with no
\* white space, so that D ends the line.
RECURSIVE WrappedEnd(_, _, _)
WrappedEnd(t, j, d) ==
  IF j + Len(d) - 1 > Len(t) THEN 0
  ELSE IF /\ StartsWithAt(t, j, d)
          /\ SkipClass(t, j + Len(d), WhiteSpace) > Len(t)
       THEN j
       ELSE WrappedEnd(t, j + 1, d)

WrappedMatch(t, d) ==
  LET close == IF StartsWithAt(t, 1, d)
               THEN WrappedEnd(t, Len(d) + 2, d) ELSE 0
  IN  IF close = 0 THEN << >> ELSE SubSeq(t, Len(d) + 1, close - 1)

RefsWord == << "r", "e", "f", "e", "r", "e", "n", "c", "e", "s" >>
AbstractWord == << "a", "b", "s", "t", "r", "a", "c", "t" >>
KeywordsWord == << "k", "e", "y", "w", "o", "r", "d", "s" >>
RefsUpper == << "R", "E", "F", "E", "R", "E", "N", "C", "E", "S" >>

(***************************************************************************)
(* parse_markdown                                                          *)
(***************************************************************************)
\* re.match(r"^##\s", trimmed)
HashHashSpace(t) ==
  StartsWithAt(t, 1, << "#", "#" >>) /\ Len(t) >= 3 /\ t[3] \in WhiteSpace

\* re.match(r"^\$\$(.+?)\$\$$", trimmed): group 1, or << >> when there is no
\* match (the closing "$$" is the one that ends the line)
EquationMatch(t) ==
  IF /\ Len(t) >= 5
     /\ StartsWithAt(t, 1, << "$", "$" >>)
     /\ StartsWithAt(t, Len(t) - 1, << "$", "$" >>)
  THEN SubSeq(t, 3, Len(t) - 2)
  ELSE << >>

\* the continuation lines of a reference: the text and the index after them
RECURSIVE Continuation(_, _, _)
Continuation(lines, i, ref_text) ==
  IF /\ i <= Len(lines)
     /\ Strip(lines[i]) # << >>
     /\ RefNumberEnd(Strip(lines[i])) = 0
  THEN Continuation(lines, i + 1, ref_text \o << " " >> \o Strip(lines[i]))
  ELSE [i |-> i, ref_text |-> ref_text]

Section(level, heading, number) ==
  [level |-> level, heading |-> heading, number |-> number, content |-> << >>]

\* the level-1 branch without the reset of h2_count
ScanH2NoReset(sc, res, trimmed) ==
  [scan   |-> [sc EXCEPT !.state = "body",
                         !.h1_count = sc.h1_count + 1,
                         !.current_section = Len(res.sections) + 1],
   result |-> [res EXCEPT !.sections =
                 Append(@, Section(1, Strip(From(trimmed, 3)), sc.h1_count + 1))]]

\* the level-1 branch: h1_count += 1; h2_count = 0; a section numbered h1_count
ScanH2(sc, res, trimmed) ==
  [scan   |-> [sc EXCEPT !.state = "body",
                         !.h1_count = sc.h1_count + 1,
                         !.h2_count = 0,
                         !.current_section = Len(res.sections) + 1],
   result |-> [res EXCEPT !.sections =
                 Append(@, Section(1, Strip(From(trimmed, 3)), sc.h1_count + 1))]]

\* the level-2 branch: h2_count += 1; a section numbered h2_count
ScanH3(sc, res, trimmed) ==
  [scan   |-> [sc EXCEPT !.h2_count = sc.h2_count + 1,
                         !.current_section = Len(res.sections) + 1],
   result |-> [res EXCEPT !.sections =
                 Append(@, Section(2, Strip(From(trimmed, 4)), sc.h2_count + 1))]]

\* body text: a display equation or the trimmed line, added to the current
\* section
ScanBodyText(sc, res, trimmed) ==
  IF sc.current_section # 0 /\ sc.state = "body" /\ trimmed # << >>
  THEN LET item == IF EquationMatch(trimmed) # << >>
                   THEN [tag |-> "equation", text |-> EquationMatch(trimmed)]
                   ELSE [tag |-> "text", text |-> trimmed]
       IN  [scan   |-> sc,
            result |-> [res EXCEPT !.sections[sc.current_section].content =
                                     Append(@, item)]]
  ELSE [scan |-> sc, result |-> res]

\* from the horizontal-rule test to the end of the loop body
ScanFromRule(sc, res, trimmed) ==
  IF IsRule(trimmed) THEN [scan |-> sc, result |-> res]
  ELSE IF StartsWithAt(trimmed, 1, << "#", "#", " " >>)
       THEN ScanH2(sc, res, trimmed)
  ELSE IF StartsWithAt(trimmed, 1, << "#", "#", "#", " " >>)
       THEN ScanH3(sc, res, trimmed)
  ELSE ScanBodyText(sc, res, trimmed)

\* from the Keywords test on
ScanFromKeywords(sc, res, trimmed) ==
  IF HeadingNamed(trimmed, KeywordsWord)
  THEN [scan   |-> [sc EXCEPT !.state = "keywords", !.current_section = 0],
        result |-> res]
  ELSE IF sc.state = "keywords" /\ (trimmed = << >> \/ IsRule(trimmed))
       THEN [scan |-> sc, result |-> res]
  ELSE IF sc.state = "keywords" /\ ~HashHashSpace(trimmed)
       THEN [scan   |-> sc,
             result |-> [res EXCEPT !.keywords = strip_markdown(trimmed)]]
  ELSE ScanFromRule(
         [sc EXCEPT !.state = IF @ = "keywords" THEN "body" ELSE @],
         res, trimmed)

\* from the Abstract test on
ScanFromAbstract(sc, res, trimmed) ==
  IF HeadingNamed(trimmed, AbstractWord)
  THEN [scan   |-> [sc EXCEPT !.state = "abstract", !.current_section = 0],
        result |-> res]
  ELSE IF sc.state = "abstract" /\ (trimmed = << >> \/ IsRule(trimmed))
       THEN [scan |-> sc, result |-> res]
  ELSE IF sc.state = "abstract" /\ ~HashHashSpace(trimmed)
       THEN [scan   |-> sc,
             result |-> [res EXCEPT !.abstract = Append(@, trimmed)]]
  ELSE ScanFromKeywords(
         [sc EXCEPT !.state = IF @ = "abstract" THEN "body" ELSE @],
         res, trimmed)

\* the author block after the title; a line it does not take falls through
ScanPostTitle(sc, res, trimmed) ==
  LET bold   == WrappedMatch(trimmed, << "*", "*" >>)
      italic == WrappedMatch(trimmed, << "*" >>)
  IN  IF IsRule(trimmed) \/ trimmed = << >>
      THEN [scan |-> sc, result |-> res]
      ELSE IF bold # << >>
           THEN [scan   |-> sc,
                 result |-> [res EXCEPT !.authors =
                               Append(@, [name |-> Strip(bold), lines |-> << >>])]]
      ELSE IF italic # << >> /\ res.authors # << >>
           THEN [scan   |-> sc,
                 result |-> [res EXCEPT !.authors[Len(res.authors)].lines =
                                          Append(@, Strip(italic))]]
      ELSE ScanFromAbstract(sc, res, trimmed)

\* a line of the reference list
ScanReference(lines, sc, res, trimmed) ==
  LET k == RefNumberEnd(trimmed)
  IN  IF k = 0 THEN [scan |-> sc, result |-> res]
      ELSE LET first == SubSeq(trimmed, SkipClass(trimmed, k + 1, WhiteSpace),
                               Len(trimmed))
               c     == Continuation(lines, sc.i, first)
           IN  [scan   |-> [sc EXCEPT !.i = c.i],
                result |-> [res EXCEPT !.references = Append(@, c.ref_text)]]

\* one pass of the while loop: sc.i is the (1-based) index of the line read
ScanLine(lines, sc, res) ==
  LET line    == lines[sc.i]
      trimmed == Strip(line)
      nxt     == [sc EXCEPT !.i = sc.i + 1]
  IN  IF HeadingNamed(trimmed, RefsWord) \/ trimmed = RefsUpper
      THEN [scan   |-> [nxt EXCEPT !.in_references = TRUE,
                                   !.current_section = 0],
            result |-> res]
      ELSE IF sc.in_references
           THEN ScanReference(lines, nxt, res, trimmed)
      ELSE IF StartsWithAt(line, 1, << "#", " " >>) /\ sc.state = "front"
           THEN [scan   |-> [nxt EXCEPT !.state = "post_title"],
                 result |-> [res EXCEPT !.title = Strip(From(line, 2))]]
      ELSE IF sc.state = "post_title"
           THEN ScanPostTitle(nxt, res, trimmed)
      ELSE ScanFromAbstract(nxt, res, trimmed)

EmptyResult ==
  [title |-> << >>, authors |-> << >>, abstract |-> << >>,
   keywords |-> << >>, sections |-> << >>, references |-> << >>]

ScanStart ==
  [i |-> 1, state |-> "front", in_references |-> FALSE,
   current_section |-> 0, h1_count |-> 0, h2_count |-> 0]

(***************************************************************************)
(* Constants of the layout (twips unless said otherwise)                   *)
(***************************************************************************)
PAGE_W_TWIPS == 12240
PAGE_H_TWIPS == 15840
MARGIN_TOP_TWIPS == 1080
MARGIN_BOTTOM_TWIPS == 1440
MARGIN_LR_TWIPS == 893
TITLE_PT == 24
AUTHOR_PT == 11
AUTHOR_AFFIL_PT == 9
AFFIL_PT == 10
ABSTRACT_PT == 9
BODY_PT == 10
H1_PT == 10
H2_PT == 10
REF_PT == 8
KEYWORDS_PT == 9
AUTHOR_COL_SPACE_TWIPS == 216
BODY_FIRST_INDENT == 288
ABSTRACT_FIRST_INDENT == 272
KEYWORDS_FIRST_INDENT == 274
COL_SPACE_TWIPS == 360
REF_INDENT_TWIPS == 354
\* docx.shared.Inches: English Metric Units per inch
EMU_PER_INCH == 914400
\* the columns of one author row
MAX_COLS_PER_ROW == 4

\* a numeric argument left at None, a numeric attribute that is not set
None == -1
\* a text attribute that is not set
NoAttr == "None"
\* an element that is not there
NoElement == [absent |-> TRUE]
\* no match of a pattern
NoMatch == [end |-> 0]

(***************************************************************************)
(* to_roman, to_letter, str                                                *)
(***************************************************************************)
RomanVals ==
  << << 1000, << "M" >> >>, << 900, << "C", "M" >> >>, << 500, << "D" >> >>,
     << 400, << "C", "D" >> >>, << 100, << "C" >> >>, << 90, << "X", "C" >> >>,
     << 50, << "L" >> >>, << 40, << "X", "L" >> >>, << 10, << "X" >> >>,
     << 9, << "I", "X" >> >>, << 5, << "V" >> >>, << 4, << "I", "V" >> >>,
     << 1, << "I" >> >> >>

RECURSIVE RomanFrom(_, _)
RomanFrom(n, k) ==
  IF k > Len(RomanVals) THEN << >>
  ELSE IF n >= RomanVals[k][1]
       THEN RomanVals[k][2] \o RomanFrom(n - RomanVals[k][1], k)
       ELSE RomanFrom(n, k + 1)

to_roman(n) == RomanFrom(n, 1)

\* chr(c) for the code points 65..126 (the grave accent written "U+0060");
\* any other is written as a code point
AsciiFrom65 ==
  << "A","B","C","D","E","F","G","H","I","J","K","L","M",
     "N","O","P","Q","R","S","T","U","V","W","X","Y","Z",
     "[","\\","]","^","_","U+0060",
     "a","b","c","d","e","f","g","h","i","j","k","l","m",
     "n","o","p","q","r","s","t","u","v","w","x","y","z",
     "{","|","}","~" >>

Chr(c) ==
  IF c - 64 \in DOMAIN AsciiFrom65 THEN AsciiFrom65[c - 64]
  ELSE << "chr", c >>

to_letter(n) == << Chr(64 + n) >>

DigitChars == << "0","1","2","3","4","5","6","7","8","9" >>

\* str(n) for n >= 0
RECURSIVE Str(_)
Str(n) ==
  IF n < 10 THEN << DigitChars[n + 1] >>
  ELSE Str(n \div 10) \o << DigitChars[(n % 10) + 1] >>

\* int(Inches(h / 100))
InchesHundredths(h) == (h * EMU_PER_INCH) \div 100

(***************************************************************************)
(* make_run, parse_math_text                                               *)
(***************************************************************************)
make_run(text, size, bold, italic, small_caps, subscript, superscript) ==
  [kind |-> "r", text |-> text, sz |-> size * 2,
   b |-> bold, i |-> italic, smallCaps |-> small_caps,
   vertAlign |-> (IF subscript THEN << "subscript" >> ELSE << >>)
                 \o (IF superscript THEN << "superscript" >> ELSE << >>)]

\* make_run(text, size=size) and its bold / italic forms
PlainRun(text, size) == make_run(text, size, FALSE, FALSE, FALSE, FALSE, FALSE)
StyledRun(text, size, bold, italic) ==
  make_run(text, size, bold, italic, FALSE, FALSE, FALSE)

\* a run holding only <w:tab/>
TabRun == [kind |-> "tab"]

\* a run holding only <w:br/>, with its size
BreakRun(size) == [kind |-> "br", sz |-> size * 2]

\* the pattern without its single-character alternative
ScriptAtBracedOnly(s, i) ==
  IF s[i] \notin {"_", "^"} \/ i = Len(s) THEN NoMatch
  ELSE IF s[i + 1] = "{"
       THEN LET close == FirstIndex(s, i + 2, "}")
            IN  IF close = 0 THEN NoMatch
                ELSE [end |-> close, content |-> SubSeq(s, i + 2, close - 1)]
  ELSE NoMatch

\* ([_^])\{([^}]*)\}|([_^])([^\s{}_^]) tried at position i: where the match
\* ends and the content it holds, or None
ScriptAt(s, i) ==
  IF s[i] \notin {"_", "^"} \/ i = Len(s) THEN NoMatch
  ELSE IF s[i + 1] = "{"
       THEN LET close == FirstIndex(s, i + 2, "}")
            IN  IF close = 0 THEN NoMatch
                ELSE [end |-> close, content |-> SubSeq(s, i + 2, close - 1)]
  ELSE IF s[i + 1] \notin (WhiteSpace \cup {"{", "}", "_", "^"})
       THEN [end |-> i + 1, content |-> << s[i + 1] >>]
  ELSE NoMatch

\* the loop over pattern.finditer(text): pos is where the plain text not yet
\* emitted begins, i where the next match is looked for
RECURSIVE MathRuns(_, _, _, _, _, _)
MathRuns(s, pos, i, size, bold, italic) ==
  IF i > Len(s)
  THEN IF pos <= Len(s)
       THEN << StyledRun(SubSeq(s, pos, Len(s)), size, bold, italic) >>
       ELSE << >>
  ELSE LET m == ScriptAt(s, i)
       IN  IF m = NoMatch THEN MathRuns(s, pos, i + 1, size, bold, italic)
           ELSE (IF i > pos
                 THEN << StyledRun(SubSeq(s, pos, i - 1), size, bold, italic) >>
                 ELSE << >>)
                \o << make_run(m.content, size, bold, italic, FALSE,
                               s[i] = "_", s[i] # "_") >>
                \o MathRuns(s, m.end + 1, m.end + 1, size, bold, italic)

parse_math_text(text, size, bold, italic, funcs) ==
  LET resolved == resolve_latex(text, funcs)
      runs     == MathRuns(resolved, 1, 1, size, bold, italic)
  IN  IF runs = << >>
      THEN << StyledRun(resolved, size, bold, italic) >>
      ELSE runs

(***************************************************************************)
(* make_paragraph, the section breaks                                      *)
(***************************************************************************)
align_map(align) ==
  CASE align = "justify" -> "both"
    [] align = "center"  -> "center"
    [] align = "left"    -> "start"
    [] align = "right"   -> "end"
    [] OTHER             -> "both"

\* the w:ind element with firstLine set whenever a first indent is given
IndentationBoth(first_indent, left_indent, hanging) ==
  IF first_indent # None \/ left_indent # None \/ hanging # None
  THEN [firstLine |-> first_indent, left |-> left_indent, hanging |-> hanging]
  ELSE NoElement

\* the w:ind element: firstLine only when no hanging indent is given
Indentation(first_indent, left_indent, hanging) ==
  IF first_indent # None \/ left_indent # None \/ hanging # None
  THEN [firstLine |-> IF first_indent # None /\ hanging = None
                      THEN first_indent ELSE None,
        left      |-> left_indent,
        hanging   |-> hanging]
  ELSE NoElement

make_paragraph(runs, align, space_before, space_after, first_indent, left_indent, hanging, keep_next, line_spacing, line_rule, tab_stops) ==
  [tag      |-> "p",
   keepNext |-> keep_next,
   tabs     |-> tab_stops,
   spacing  |-> [before   |-> space_before,
                 after    |-> space_after,
                 line     |-> line_spacing,
                 lineRule |-> IF line_spacing # None THEN line_rule ELSE NoAttr],
   ind      |-> Indentation(first_indent, left_indent, hanging),
   jc       |-> align_map(align),
   sectPr   |-> NoElement,
   runs     |-> runs]

\* make_paragraph with line_spacing=228, line_rule="auto", tab_stops=None and
\* the indents left out
Paragraph(runs, align, space_before, space_after, first_indent, keep_next) ==
  make_paragraph(runs, align, space_before, space_after, first_indent,
                 None, None, keep_next, 228, "auto", << >>)

PgSz == [w |-> PAGE_W_TWIPS, h |-> PAGE_H_TWIPS]

PgMar ==
  [top |-> MARGIN_TOP_TWIPS, right |-> MARGIN_LR_TWIPS,
   bottom |-> MARGIN_BOTTOM_TWIPS, left |-> MARGIN_LR_TWIPS,
   header |-> 720, footer |-> 720, gutter |-> 0]

\* a paragraph that holds a sectPr in its pPr and nothing else; site names
\* the function that made it (see At below)
BreakParagraph(site, sectPr) ==
  [site |-> site, tag |-> "p", keepNext |-> FALSE, tabs |-> << >>, spacing |-> NoElement,
   ind |-> NoElement, jc |-> NoAttr, sectPr |-> sectPr, runs |-> << >>]

\* seq with e put before its element at index k (lxml addprevious)
InsertBefore(seq, k, e) ==
  SubSeq(seq, 1, k - 1) \o << e >> \o SubSeq(seq, k, Len(seq))

\* the sectPr inject_continuous_two_col_section_break builds: no w:type,
\* w:cols with num="1"
TwoColBreakSectPr ==
  [type |-> NoAttr, pgSz |-> PgSz, pgMar |-> PgMar,
   cols |-> [num |-> 1, space |-> COL_SPACE_TWIPS, equalWidth |-> None],
   docGrid |-> 360]

\* the descriptor put into the paragraph that precedes the element
inject_into_preceding_paragraph(body, k) ==
  [body EXCEPT ![k - 1].sectPr = TwoColBreakSectPr]

inject_continuous_two_col_section_break(body, k) ==
  InsertBefore(body, k, BreakParagraph("body_break", TwoColBreakSectPr))

SectionBreakSectPr(num_cols, col_space, continuous) ==
  [type |-> IF continuous THEN "continuous" ELSE NoAttr,
   pgSz |-> PgSz, pgMar |-> PgMar,
   cols |-> [num |-> num_cols, space |-> col_space,
             equalWidth |-> IF num_cols > 1 THEN 1 ELSE None],
   docGrid |-> 360]

\* the break paragraph put after the element instead of before it
inject_section_break_after(body, k, num_cols, col_space, continuous) ==
  InsertBefore(body, k + 1,
               BreakParagraph("section_break",
                              SectionBreakSectPr(num_cols, col_space, continuous)))

inject_section_break(body, k, num_cols, col_space, continuous) ==
  InsertBefore(body, k,
               BreakParagraph("section_break",
                              SectionBreakSectPr(num_cols, col_space, continuous)))

\* the sectPr set_final_section_two_col builds
FinalSectPr ==
  [type |-> "continuous", pgSz |-> PgSz, pgMar |-> PgMar,
   cols |-> [num |-> 2, space |-> COL_SPACE_TWIPS, equalWidth |-> 1],
   docGrid |-> 360]

\* a direct w:sectPr child of w:body
BodySectPr(site, sectPr) == [site |-> site, tag |-> "sectPr", sectPr |-> sectPr]

\* body.find(qn("w:sectPr")): the index of the first such child, or 0
RECURSIVE FindSectPr(_, _)
FindSectPr(body, k) ==
  IF k > Len(body) THEN 0
  ELSE IF body[k].tag = "sectPr" THEN k
  ELSE FindSectPr(body, k + 1)

\* body.remove(body[k])
RemoveAt(body, k) == SubSeq(body, 1, k - 1) \o SubSeq(body, k + 1, Len(body))

\* the fresh sectPr appended without removing the one found
set_final_section_keeping_found(body) ==
  Append(body, BodySectPr("final", FinalSectPr))

set_final_section_two_col(body) ==
  LET k       == FindSectPr(body, 1)
      removed == IF k # 0 THEN RemoveAt(body, k) ELSE body
  IN  Append(removed, BodySectPr("final", FinalSectPr))

\* make_author_paragraph: the name, then a break and an italic run per
\* affiliation line
RECURSIVE AffiliationRuns(_, _)
AffiliationRuns(lines, size) ==
  IF lines = << >> THEN << >>
  ELSE << BreakRun(size), StyledRun(Head(lines), size, FALSE, TRUE) >>
       \o AffiliationRuns(Tail(lines), size)

make_author_paragraph(author) ==
  make_paragraph(
    << PlainRun(author.name, AUTHOR_AFFIL_PT) >>
      \o AffiliationRuns(author.lines, AUTHOR_AFFIL_PT),
    "center", 0, 40, None, None, None, FALSE, 228, "auto", << >>)

(***************************************************************************)
(* build_document: the rendering rules of one content item                 *)
(***************************************************************************)
\* Elements carry, beside what the code puts in them, the name of the
\* statement of build_document that made them (site); the document holds no
\* such thing, the properties below use it to tell the elements apart.
At(site, element) == [site |-> site] @@ element

AlNum == Letter \cup Digit

\* re.sub(r"^[A-Za-z0-9]+\.\s*", "", heading)
StripNumbering(heading) ==
  LET k == SkipClass(heading, 1, AlNum)
  IN  IF k > 1 /\ k <= Len(heading) /\ heading[k] = "."
      THEN SubSeq(heading, SkipClass(heading, k + 1, WhiteSpace), Len(heading))
      ELSE heading

\* re.match(r"^(\d+)\.\s+\*\*(.+?)\*\*\s*(.*)", para_text) with digits = TRUE,
\* re.match(r"^\*\*(.+?)\*\*\s*(.*)", para_text) with digits = FALSE:
\* the groups, or NoMatch
LabelMatch(t, digits) ==
  LET k     == SkipClass(t, 1, Digit)
      w     == IF digits THEN SkipClass(t, k + 1, WhiteSpace) ELSE 1
      close == FirstAt(t, w + 3, << "*", "*" >>)
  IN  IF /\ digits => (k > 1 /\ k <= Len(t) /\ t[k] = "." /\ w > k + 1)
         /\ StartsWithAt(t, w, << "*", "*" >>)
         /\ close # 0
      THEN [end   |-> close + 1,
            num   |-> IF digits THEN SubSeq(t, 1, k - 1) ELSE << >>,
            label |-> SubSeq(t, w + 2, close - 1),
            rest  |-> SubSeq(t, SkipClass(t, close + 2, WhiteSpace), Len(t))]
      ELSE NoMatch

\* re.match(r"^[-*]\s", para_text)
BulletMatch(t) == Len(t) >= 2 /\ t[1] \in {"-", "*"} /\ t[2] \in WhiteSpace

\* the bullet run built by hand: the glyph at the body size
BulletRun == PlainRun(<< "U+2022" >>, BODY_PT)

EquationParagraph(latex, number, funcs) ==
  LET eq_text == SpacesToNbsp(resolve_latex(strip_markdown(latex), funcs))
  IN  make_paragraph(
        << TabRun >> \o parse_math_text(eq_text, BODY_PT, FALSE, FALSE, funcs)
          \o << TabRun,
                PlainRun(<< "(" >> \o Str(number) \o << ")" >>, BODY_PT) >>,
        "left", 240, 240, None, None, None, FALSE, 228, "auto",
        << << 2520, "center" >>, << 5040, "end" >> >>)

BlockquoteParagraph(para_text, funcs) ==
  make_paragraph(
    parse_math_text(strip_markdown(From(para_text, 2)), BODY_PT, FALSE, TRUE,
                    funcs),
    "justify", 0, 120, None, InchesHundredths(20), None, FALSE, 228, "auto",
    << >>)

ListParagraph(m) ==
  make_paragraph(
    << PlainRun(m.num \o << ".", " " >>, BODY_PT),
       StyledRun(m.label \o << " " >>, BODY_PT, TRUE, FALSE),
       PlainRun(strip_markdown(m.rest), BODY_PT) >>,
    "justify", 0, 120, None, InchesHundredths(25), InchesHundredths(25),
    FALSE, 228, "auto", << >>)

BoldLabelParagraph(m, funcs) ==
  make_paragraph(
    << StyledRun(m.label \o << " " >>, BODY_PT, TRUE, FALSE) >>
      \o parse_math_text(strip_markdown(m.rest), BODY_PT, FALSE, FALSE, funcs),
    "justify", 0, 120, BODY_FIRST_INDENT, None, None, FALSE, 228, "auto",
    << >>)

BulletParagraph(para_text, funcs) ==
  make_paragraph(
    << BulletRun, TabRun >>
      \o parse_math_text(
           strip_markdown(SubSeq(para_text, SkipClass(para_text, 2, WhiteSpace),
                                 Len(para_text))),
           BODY_PT, FALSE, FALSE, funcs),
    "justify", 0, 40, None, 576, 288, FALSE, 228, "auto", << >>)

DefaultParagraph(cleaned, funcs) ==
  make_paragraph(
    parse_math_text(cleaned, BODY_PT, FALSE, FALSE, funcs),
    "justify", 0, 120, BODY_FIRST_INDENT, None, None, FALSE, 228, "auto",
    << >>)

\* the rendering rules with the counter advanced for every item
RenderItemCountingAll(item, equation_counter, funcs) ==
  IF item.tag = "equation"
  THEN [paras |-> << At("equation",
                        EquationParagraph(item.text, equation_counter + 1, funcs)) >>,
        equation_counter |-> equation_counter + 1]
  ELSE [paras |-> << At("default",
                        DefaultParagraph(strip_markdown(item.text), funcs)) >>,
        equation_counter |-> equation_counter + 1]

\* the rendering rules with the bold-label rule taking a label that no text
\* follows
RenderItemAnyRest(item, equation_counter, funcs) ==
  IF item.tag = "equation"
  THEN [paras |-> << At("equation",
                        EquationParagraph(item.text, equation_counter + 1, funcs)) >>,
        equation_counter |-> equation_counter + 1]
  ELSE LET t    == item.text
           list == LabelMatch(t, TRUE)
           bold == LabelMatch(t, FALSE)
           p    == IF StartsWithAt(t, 1, << ">", " " >>)
                   THEN << At("blockquote", BlockquoteParagraph(t, funcs)) >>
                   ELSE IF list # NoMatch
                   THEN << At("list", ListParagraph(list)) >>
                   ELSE IF bold # NoMatch
                   THEN << At("bold_label", BoldLabelParagraph(bold, funcs)) >>
                   ELSE IF BulletMatch(t)
                   THEN << At("bullet", BulletParagraph(t, funcs)) >>
                   ELSE IF Strip(strip_markdown(t)) = << >>
                   THEN << >>
                   ELSE << At("default", DefaultParagraph(strip_markdown(t), funcs)) >>
       IN  [paras |-> p, equation_counter |-> equation_counter]

\* one pass of "for para_text in sec['content']": the paragraphs appended
\* (one or none) and the equation counter after it
RenderItem(item, equation_counter, funcs) ==
  IF item.tag = "equation"
  THEN [paras |-> << At("equation",
                        EquationParagraph(item.text, equation_counter + 1, funcs)) >>,
        equation_counter |-> equation_counter + 1]
  ELSE LET t    == item.text
           list == LabelMatch(t, TRUE)
           bold == LabelMatch(t, FALSE)
           p    == IF StartsWithAt(t, 1, << ">", " " >>)
                   THEN << At("blockquote", BlockquoteParagraph(t, funcs)) >>
                   ELSE IF list # NoMatch
                   THEN << At("list", ListParagraph(list)) >>
                   ELSE IF bold # NoMatch /\ bold.rest # << >>
                   THEN << At("bold_label", BoldLabelParagraph(bold, funcs)) >>
                   ELSE IF BulletMatch(t)
                   THEN << At("bullet", BulletParagraph(t, funcs)) >>
                   ELSE IF Strip(strip_markdown(t)) = << >>
                   THEN << >>
                   ELSE << At("default", DefaultParagraph(strip_markdown(t), funcs)) >>
       IN  [paras |-> p, equation_counter |-> equation_counter]

\* the heading paragraph of a section (none for a level other than 1, 2)
HeadingParagraph(sec) ==
  IF sec.level = 1
  THEN << At("heading1",
             make_paragraph(
               << make_run(to_roman(sec.number) \o << ".", " " >>
                             \o StripNumbering(sec.heading),
                           H1_PT, FALSE, FALSE, TRUE, FALSE, FALSE) >>,
               "center", 160, 80, None, None, None, TRUE, 228, "auto", << >>)) >>
  ELSE IF sec.level = 2
  THEN << At("heading2",
             make_paragraph(
               << StyledRun(to_letter(sec.number) \o << ".", " " >>
                              \o StripNumbering(sec.heading),
                            H2_PT, FALSE, TRUE) >>,
               "left", 120, 60, None, None, None, TRUE, 228, "auto", << >>)) >>
  ELSE << >>

(***************************************************************************)
(* State                                                                   *)
(***************************************************************************)
VARIABLES
  installed,         \* whether the docx package can be imported
  lines,             \* the lines of the markdown file
  funcs,             \* the order in which the set LATEX_FUNCTIONS is visited
  scan,              \* parse_markdown: i, state, in_references,
                     \* current_section (0 for None, else the index of the
                     \* section it refers to), h1_count, h2_count
  result,            \* parse_markdown: result; build_document: parsed
  pc,                \* the statement the program is at
  body,              \* build_document: the children of doc.element.body
  max_cols_per_row,  \* build_document
  row_start,         \* build_document: the author loop
  sec,               \* build_document: index of the section being rendered
  item,              \* build_document: index of the content item
  ref,               \* build_document: index of the reference
  equation_counter,  \* build_document
  text,              \* the argument of resolve_latex and parse_math_text
  once,              \* resolve_latex(text)
  twice,             \* resolve_latex(resolve_latex(text))
  runs,              \* parse_math_text(text)
  indents,           \* first_indent, left_indent, hanging of make_paragraph
  para               \* the paragraph make_paragraph returned

envVars == << funcs, installed >>
parseVars == << lines, scan, result >>
loopVars == << max_cols_per_row, row_start, sec, item, ref, equation_counter >>
callVars == << text, once, twice, runs, indents, para >>
vars == << installed, lines, funcs, scan, result, pc, body, max_cols_per_row,
           row_start, sec, item, ref, equation_counter, text, once, twice,
           runs, indents, para >>

(***************************************************************************)
(* Bounds and inputs                                                       *)
(***************************************************************************)
\* the longest markdown file of mixed lines
MaxLines == 8
\* the most headings of a file of headings
MaxHeadings == 2
\* the most content items of a file of content items
MaxItems == 2
\* the most subsections of one section
MaxSubsections == 27
\* the empty paragraphs of the template Document() opens
MaxDefaultParagraphs == 1

TitleLine == << "#", " ", "T" >>
BoldLine == << "*", "*", "N", "*", "*" >>
ItalicLine == << "*", "F", "*" >>
AbstractHeading == << "#", "#", " ", "A", "b", "s", "t", "r", "a", "c", "t" >>
AbstractLine == << "x" >>
KeywordsHeading == << "#", "#", " ", "K", "e", "y", "w", "o", "r", "d", "s" >>
KeywordsLine == << "k" >>
H2Line == << "#", "#", " ", "S" >>
H3Line == << "#", "#", "#", " ", "U" >>
EquationLine == << "$", "$", "e", "$", "$" >>
TextLine == << "p" >>
RefsHeading ==
  << "#", "#", " ", "R", "e", "f", "e", "r", "e", "n", "c", "e", "s" >>
RefLine(k) == << "[" >> \o Str(k) \o << "]", " ", "R" >>

\* headings that begin with a number, a Roman numeral, a letter or a word
\* followed by a period
NumberedH2 ==
  << "#", "#", " ", "2", ".", " ", "E", "x", "i", "s", "t", "i", "n", "g", " ",
     "P", "r", "e", "f", "i", "x", " ", "T", "i", "t", "l", "e" >>
RomanH2 == << "#", "#", " ", "I", "V", ".", " ", "M" >>
LetterH3 == << "#", "#", "#", " ", "A", ".", "U" >>
WordH2 == << "#", "#", " ", "R", "e", "s", "u", "l", "t", "s", ".", " ", "S" >>

\* content items: a blockquote, a numbered list item with a label, a bold
\* label with and without text after it, bullets, a bold blank, a numbered
\* item without a label and a bold mark that is not closed
QuoteLine == << ">", " ", "q" >>
ListLine == << "1", ".", " ", "*", "*", "L", "*", "*", " ", "r" >>
BoldLabelLine == << "*", "*", "L", ":", "*", "*", " ", "r" >>
BoldOnlyLine == << "*", "*", "L", "*", "*" >>
BulletLine == << "-", " ", "b" >>
StarBulletLine == << "*", " ", "b" >>
BoldBlankLine == << "*", "*", " ", "*", "*" >>
NumberedLine == << "1", ".", " ", "n" >>
UnclosedBoldLine == << "*", "*", "L", " ", "r" >>

AuthorLines == {BoldLine, ItalicLine}
ItemLines ==
  {EquationLine, QuoteLine, ListLine, BoldLabelLine, BoldOnlyLine, BulletLine,
   StarBulletLine, BoldBlankLine, NumberedLine, UnclosedBoldLine, TextLine}
HeadingLines == {H2Line, H3Line, NumberedH2, RomanH2, LetterH3, WordH2}
BodyLines == {H2Line, H3Line, EquationLine, TextLine}

\* the sequences of at most n elements of S
SeqsUpTo(S, n) == UNION {[1..k -> S] : k \in 0..n}

\* the reference list: none, or the heading and r references, within n lines
RefLists(n) ==
  {<< >>} \cup {<< RefsHeading >> \o [k \in 1..r |-> RefLine(k)] : r \in 0..(n - 1)}

KeywordBlocks(n) ==
  {<< >>} \cup (IF n >= 2 THEN {<< KeywordsHeading, KeywordsLine >>} ELSE {})

\* a title and the abstract
Front == << TitleLine, AbstractHeading, AbstractLine >>

\* files of headings
HeadingFiles == {Front \o h : h \in SeqsUpTo(HeadingLines, MaxHeadings)}

\* files of one section and its content items
ItemFiles == {Front \o << H2Line >> \o c : c \in SeqsUpTo(ItemLines, MaxItems)}

\* files of one section and its subsections
SubsectionFiles ==
  {Front \o << H2Line >> \o [k \in 1..n |-> H3Line] : n \in 0..MaxSubsections}

\* files of mixed lines: a title, the author block, the abstract, the
\* keywords, the sections and the reference list, at most MaxLines lines
MixedFiles ==
  LET free == MaxLines - 3
  IN  UNION {
        UNION {
          UNION {
            { << TitleLine >> \o a \o << AbstractHeading, AbstractLine >>
                \o k \o b \o r
              : r \in RefLists(free - Len(a) - Len(k) - Len(b)) }
            : b \in SeqsUpTo(BodyLines, free - Len(a) - Len(k)) }
          : k \in KeywordBlocks(free - Len(a)) }
        : a \in SeqsUpTo(AuthorLines, free) }

\* the markdown files
Files == MixedFiles \cup HeadingFiles \cup ItemFiles \cup SubsectionFiles

\* orders in which Python may visit the set LATEX_FUNCTIONS
RECURSIVE Reverse(_)
Reverse(s) == IF s = << >> THEN << >> ELSE Reverse(Tail(s)) \o << Head(s) >>

FunctionOrders == {LATEX_FUNCTIONS, Reverse(LATEX_FUNCTIONS)}

(***************************************************************************)
(* main: parse_markdown, then build_document                               *)
(***************************************************************************)
\* first_indent, left_indent and hanging all left out
NoIndents == [first_indent |-> None, left_indent |-> None, hanging |-> None]

Init ==
  /\ installed \in BOOLEAN
  /\ lines \in Files
  /\ funcs = LATEX_FUNCTIONS
  /\ scan = ScanStart
  /\ result = EmptyResult
  /\ pc = "import"
  /\ body = << >>
  /\ max_cols_per_row = 0
  /\ row_start = 0
  /\ sec = 0
  /\ item = 0
  /\ ref = 0
  /\ equation_counter = 0
  /\ text = << >>
  /\ once = << >>
  /\ twice = << >>
  /\ runs = << >>
  /\ indents = NoIndents
  /\ para = NoElement

\* the import statements at the top of the module, run before anything
\* else: with the docx package missing, "from docx import Document" raises
\* ImportError there, outside every try statement, and the interpreter ends
\* with its traceback; the handler in the __main__ block is not reached
ImportModules ==
  /\ pc = "import"
  /\ pc' = IF installed THEN "parse" ELSE "import_error"
  /\ UNCHANGED << parseVars, envVars, body, loopVars, callVars >>

\* one pass of the while loop of parse_markdown
ParseLine ==
  /\ pc = "parse"
  /\ scan.i <= Len(lines)
  /\ LET r == ScanLine(lines, scan, result)
     IN  scan' = r.scan /\ result' = r.result
  /\ UNCHANGED << lines, envVars, pc, body, loopVars, callVars >>

\* return result; main calls build_document(parsed)
ParseReturn ==
  /\ pc = "parse"
  /\ scan.i > Len(lines)
  /\ pc' = "document"
  /\ UNCHANGED << lines, envVars, scan, result, body, loopVars, callVars >>

\* the sectPr of the template after the page size and margins are set on
\* doc.sections[0] (python-docx writes twips, 635 EMU each)
DefaultSectPr ==
  [type |-> NoAttr, pgSz |-> PgSz,
   pgMar |-> [top |-> MARGIN_TOP_TWIPS,
              right |-> (MARGIN_LR_TWIPS * 914) \div 635,
              bottom |-> MARGIN_BOTTOM_TWIPS,
              left |-> (MARGIN_LR_TWIPS * 914) \div 635,
              header |-> 720, footer |-> 720, gutter |-> 0],
   cols |-> [num |-> None, space |-> 720, equalWidth |-> None],
   docGrid |-> 360]

EmptyParagraph ==
  [tag |-> "p", keepNext |-> FALSE, tabs |-> << >>, spacing |-> NoElement,
   ind |-> NoElement, jc |-> NoAttr, sectPr |-> NoElement, runs |-> << >>]

\* doc = Document() and the settings of the default section: the body of
\* the template holds its sectPr, after the empty paragraphs it may hold
NewDocument ==
  /\ pc = "document"
  /\ \E n \in 0..MaxDefaultParagraphs :
       body' = [k \in 1..n |-> At("template", EmptyParagraph)]
               \o << BodySectPr("template", DefaultSectPr) >>
  /\ pc' = "strip"
  /\ UNCHANGED << parseVars, envVars, loopVars, callVars >>

\* for p in body.findall(qn("w:p")): body.remove(p)
RemoveDefaultParagraphs ==
  /\ pc = "strip"
  /\ body' = SelectSeq(body, LAMBDA e : e.tag # "p")
  /\ pc' = "title"
  /\ UNCHANGED << parseVars, envVars, loopVars, callVars >>

EmitTitle ==
  /\ pc = "title"
  /\ body' = Append(body,
       At("title", Paragraph(<< PlainRun(result.title, TITLE_PT) >>,
                             "center", 0, 120, None, FALSE)))
  /\ pc' = "authors"
  /\ UNCHANGED << parseVars, envVars, loopVars, callVars >>

\* num_authors == 0: pass
SkipAuthors ==
  /\ pc = "authors"
  /\ Len(result.authors) = 0
  /\ pc' = "abstract"
  /\ UNCHANGED << parseVars, envVars, body, loopVars, callVars >>

\* num_authors == 1: the name and the affiliation lines as paragraphs
RECURSIVE AffiliationParagraphs(_)
AffiliationParagraphs(affil_lines) ==
  IF affil_lines = << >> THEN << >>
  ELSE << At("affiliation",
             Paragraph(<< StyledRun(Head(affil_lines), AFFIL_PT, FALSE, TRUE) >>,
                       "center", 0, 40, None, FALSE)) >>
       \o AffiliationParagraphs(Tail(affil_lines))

EmitSingleAuthor ==
  /\ pc = "authors"
  /\ Len(result.authors) = 1
  /\ body' = Append(body,
               At("author_name",
                  Paragraph(<< PlainRun(result.authors[1].name, AUTHOR_PT) >>,
                            "center", 0, 40, None, FALSE)))
             \o AffiliationParagraphs(result.authors[1].lines)
  /\ pc' = "abstract"
  /\ UNCHANGED << parseVars, envVars, loopVars, callVars >>

Min(a, b) == IF a < b THEN a ELSE b

\* max_cols_per_row = min(num_authors, 4)
BeginAuthorRows ==
  /\ pc = "authors"
  /\ Len(result.authors) >= 2
  /\ max_cols_per_row' = Min(Len(result.authors), MAX_COLS_PER_ROW)
  /\ row_start' = 0
  /\ pc' = "author_row"
  /\ UNCHANGED << parseVars, envVars, body, sec, item, ref, equation_counter,
                  callVars >>

\* authors[row_start : row_start + max_cols_per_row]
RowAuthors(authors, start, width) ==
  SubSeq(authors, start + 1, Min(start + width, Len(authors)))

\* the row with its break given the widest row's column count
AuthorRowFullWidth(b, row_authors) ==
  LET author_paras ==
        [k \in 1..Len(row_authors) |->
           At("author", make_author_paragraph(row_authors[k]))]
  IN  inject_section_break(b \o author_paras, Len(b) + 1,
                           MAX_COLS_PER_ROW, AUTHOR_COL_SPACE_TWIPS, TRUE)

\* one pass of the loop over the rows: the author paragraphs of the row are
\* appended, then the section break is put before the first of them
AuthorRow(b, row_authors) ==
  LET author_paras ==
        [k \in 1..Len(row_authors) |->
           At("author", make_author_paragraph(row_authors[k]))]
  IN  inject_section_break(b \o author_paras, Len(b) + 1,
                           Len(row_authors), AUTHOR_COL_SPACE_TWIPS, TRUE)

EmitAuthorRow ==
  /\ pc = "author_row"
  /\ row_start < Len(result.authors)
  /\ body' = AuthorRow(body, RowAuthors(result.authors, row_start,
                                        max_cols_per_row))
  /\ row_start' = row_start + max_cols_per_row
  /\ UNCHANGED << parseVars, envVars, pc, max_cols_per_row, sec, item, ref,
                  equation_counter, callVars >>

EndAuthorRows ==
  /\ pc = "author_row"
  /\ row_start >= Len(result.authors)
  /\ pc' = "abstract"
  /\ UNCHANGED << parseVars, envVars, body, loopVars, callVars >>

AbstractWordRun == << "A", "b", "s", "t", "r", "a", "c", "t" >>
KeywordsWordRun == << "K", "e", "y", "w", "o", "r", "d", "s", "U+2014" >>
ReferencesWordRun ==
  << "R", "e", "f", "e", "r", "e", "n", "c", "e", "s" >>

AbstractParagraph(abstract, fs) ==
  make_paragraph(
    << StyledRun(AbstractWordRun, ABSTRACT_PT, TRUE, TRUE),
       StyledRun(<< "U+2014" >>, ABSTRACT_PT, TRUE, FALSE) >>
      \o parse_math_text(strip_markdown(JoinSpace(abstract)), ABSTRACT_PT,
                         TRUE, FALSE, fs),
    "justify", 360, 200, ABSTRACT_FIRST_INDENT, None, None, FALSE, 228,
    "auto", << >>)

\* body.append(abstract_para), then the section break before it
EmitAbstract ==
  /\ pc = "abstract"
  /\ body' = inject_continuous_two_col_section_break(
               Append(body, At("abstract",
                               AbstractParagraph(result.abstract, funcs))),
               Len(body) + 1)
  /\ pc' = "keywords"
  /\ UNCHANGED << parseVars, envVars, loopVars, callVars >>

KeywordsParagraph(keywords) ==
  make_paragraph(
    << StyledRun(KeywordsWordRun, KEYWORDS_PT, TRUE, TRUE),
       StyledRun(keywords, KEYWORDS_PT, TRUE, TRUE) >>,
    "justify", 0, 120, KEYWORDS_FIRST_INDENT, None, None, FALSE, 228, "auto",
    << >>)

\* the keywords paragraph appended whether or not there are keywords
EmitKeywordsAlways ==
  /\ pc = "keywords"
  /\ body' = Append(body, At("keywords", KeywordsParagraph(result.keywords)))
  /\ equation_counter' = 0
  /\ sec' = 1
  /\ pc' = "section"
  /\ UNCHANGED << parseVars, envVars, max_cols_per_row, row_start, item, ref,
                  callVars >>

\* if parsed["keywords"]: ...; equation_counter = 0
EmitKeywords ==
  /\ pc = "keywords"
  /\ body' = IF result.keywords # << >>
             THEN Append(body, At("keywords", KeywordsParagraph(result.keywords)))
             ELSE body
  /\ equation_counter' = 0
  /\ sec' = 1
  /\ pc' = "section"
  /\ UNCHANGED << parseVars, envVars, max_cols_per_row, row_start, item, ref,
                  callVars >>

\* for sec in parsed["sections"]: the heading
EmitHeading ==
  /\ pc = "section"
  /\ sec <= Len(result.sections)
  /\ body' = body \o HeadingParagraph(result.sections[sec])
  /\ item' = 1
  /\ pc' = "content"
  /\ UNCHANGED << parseVars, envVars, max_cols_per_row, row_start, sec, ref,
                  equation_counter, callVars >>

\* for para_text in sec["content"]: one item
EmitContent ==
  /\ pc = "content"
  /\ item <= Len(result.sections[sec].content)
  /\ LET r == RenderItem(result.sections[sec].content[item],
                         equation_counter, funcs)
     IN  /\ body' = body \o r.paras
         /\ equation_counter' = r.equation_counter
  /\ item' = item + 1
  /\ UNCHANGED << parseVars, envVars, pc, max_cols_per_row, row_start, sec, ref,
                  callVars >>

\* the content of the section is exhausted
EndSection ==
  /\ pc = "content"
  /\ item > Len(result.sections[sec].content)
  /\ sec' = sec + 1
  /\ pc' = "section"
  /\ UNCHANGED << parseVars, envVars, body, max_cols_per_row, row_start, item,
                  ref, equation_counter, callVars >>

EmitReferencesHeading ==
  /\ pc = "section"
  /\ sec > Len(result.sections)
  /\ body' = Append(body,
       At("references_heading",
          make_paragraph(
            << make_run(ReferencesWordRun, H1_PT, FALSE, FALSE, TRUE, FALSE,
                        FALSE) >>,
            "center", 200, 80, None, None, None, FALSE, 228, "auto", << >>)))
  /\ ref' = 1
  /\ pc' = "references"
  /\ UNCHANGED << parseVars, envVars, max_cols_per_row, row_start, sec, item,
                  equation_counter, callVars >>

\* the paragraph of a reference numbered by i of the enumerate
ReferenceParagraphFromZero(k, ref_text) ==
  make_paragraph(
    << PlainRun(<< "[" >> \o Str(k - 1) \o << "]", NBSP >>, REF_PT),
       PlainRun(strip_markdown(ref_text), REF_PT) >>,
    "justify", 0, 50, None, REF_INDENT_TWIPS, REF_INDENT_TWIPS, FALSE, 180,
    "exact", << >>)

\* the paragraph of the reference numbered k (i + 1 of the enumerate)
ReferenceParagraph(k, ref_text) ==
  make_paragraph(
    << PlainRun(<< "[" >> \o Str(k) \o << "]", NBSP >>, REF_PT),
       PlainRun(strip_markdown(ref_text), REF_PT) >>,
    "justify", 0, 50, None, REF_INDENT_TWIPS, REF_INDENT_TWIPS, FALSE, 180,
    "exact", << >>)

EmitReference ==
  /\ pc = "references"
  /\ ref <= Len(result.references)
  /\ body' = Append(body, At("reference",
                             ReferenceParagraph(ref, result.references[ref])))
  /\ ref' = ref + 1
  /\ UNCHANGED << parseVars, envVars, pc, max_cols_per_row, row_start, sec, item,
                  equation_counter, callVars >>

\* set_final_section_two_col(doc); return doc
SetFinalSection ==
  /\ pc = "references"
  /\ ref > Len(result.references)
  /\ body' = set_final_section_two_col(body)
  /\ pc' = "done"
  /\ UNCHANGED << parseVars, envVars, loopVars, callVars >>

Next ==
  \/ ImportModules
  \/ ParseLine
  \/ ParseReturn
  \/ NewDocument
  \/ RemoveDefaultParagraphs
  \/ EmitTitle
  \/ SkipAuthors
  \/ EmitSingleAuthor
  \/ BeginAuthorRows
  \/ EmitAuthorRow
  \/ EndAuthorRows
  \/ EmitAbstract
  \/ EmitKeywords
  \/ EmitHeading
  \/ EmitContent
  \/ EndSection
  \/ EmitReferencesHeading
  \/ EmitReference
  \/ SetFinalSection

Spec == Init /\ [][Next]_vars

(***************************************************************************)
(* resolve_latex applied to a text, and to its own output                  *)
(***************************************************************************)
\* how deep the texts given to resolve_latex nest wrappers
MaxNesting == 2

Cmd(name) == << BS >> \o name
Braced(x) == << "{" >> \o x \o << "}" >>
FracOf(x, y) == Cmd(<< "f", "r", "a", "c" >>) \o Braced(x) \o Braced(y)
TextOf(x) == Cmd(<< "t", "e", "x", "t" >>) \o Braced(x)
MathOf(x) == << "$" >> \o x \o << "$" >>

\* a letter; a glyph command; a function command; a command no table
\* holds; a command no table holds whose name begins with the glyph
\* command \in
LatexAtoms ==
  { << "a" >>,
    Cmd(<< "a", "l", "p", "h", "a" >>),
    Cmd(<< "s", "i", "n" >>),
    Cmd(<< "f", "o", "o" >>),
    Cmd(<< "i", "n", "p", "u", "t" >>) }

\* the atoms wrapped at most d deep in \frac{..}{..}, \text{..} and $..$
RECURSIVE LatexTexts(_)
LatexTexts(d) ==
  IF d = 0 THEN LatexAtoms
  ELSE LET inner == LatexTexts(d - 1)
       IN  LatexAtoms
             \cup {FracOf(x, y) : x \in inner, y \in LatexAtoms}
             \cup {TextOf(x) : x \in inner}
             \cup {MathOf(x) : x \in inner}

\* \frac{a+b}{c} and \frac{\frac{a}{b}}{c}
FracSimple == FracOf(<< "a", "+", "b" >>, << "c" >>)
FracNested == FracOf(FracOf(<< "a" >>, << "b" >>), << "c" >>)

LatexInputs == {FracSimple, FracNested} \cup LatexTexts(MaxNesting)

InitLatex ==
  /\ installed = TRUE
  /\ lines = << >>
  /\ funcs \in FunctionOrders
  /\ scan = ScanStart
  /\ result = EmptyResult
  /\ pc = "latex"
  /\ body = << >>
  /\ max_cols_per_row = 0
  /\ row_start = 0
  /\ sec = 0
  /\ item = 0
  /\ ref = 0
  /\ equation_counter = 0
  /\ text \in LatexInputs
  /\ once = << >>
  /\ twice = << >>
  /\ runs = << >>
  /\ indents = NoIndents
  /\ para = NoElement

\* resolve_latex(text)
ResolveOnce ==
  /\ pc = "latex"
  /\ once' = resolve_latex(text, funcs)
  /\ pc' = "latex_once"
  /\ UNCHANGED << parseVars, envVars, body, loopVars, text, twice, runs, indents, para >>

\* resolve_latex applied to what resolve_latex returned
ResolveTwice ==
  /\ pc = "latex_once"
  /\ twice' = resolve_latex(once, funcs)
  /\ pc' = "latex_twice"
  /\ UNCHANGED << parseVars, envVars, body, loopVars, text, once, runs, indents, para >>

NextLatex ==
  \/ ResolveOnce
  \/ ResolveTwice

SpecLatex == InitLatex /\ [][NextLatex]_vars

(***************************************************************************)
(* Properties of build_document and parse_markdown                         *)
(***************************************************************************)
\* the indices of the elements of b made at the statement named site, in
\* document order
RECURSIVE PositionsFrom(_, _, _)
PositionsFrom(b, site, k) ==
  IF k > Len(b) THEN << >>
  ELSE (IF b[k].site = site THEN << k >> ELSE << >>)
       \o PositionsFrom(b, site, k + 1)

Positions(b, site) == PositionsFrom(b, site, 1)

\* a paragraph that carries a region descriptor
IsBoundary(e) == e.tag = "p" /\ e.sectPr # NoElement

\* the region descriptors of b in document order: those the boundary
\* paragraphs carry and the document-level ones
Descriptors(b) ==
  LET holders == SelectSeq(b, LAMBDA e : e.sectPr # NoElement)
  IN  [k \in DOMAIN holders |-> holders[k].sectPr]

ColumnCounts(b) == [k \in DOMAIN Descriptors(b) |-> Descriptors(b)[k].cols.num]

\* ceil(n / 4)
RowCount(n) == (n + 3) \div 4

\* min(authors not yet placed, 4) for the rows of n authors, n >= 2
RowWidths(n) ==
  IF n < 2 THEN << >>
  ELSE [k \in 1..RowCount(n) |-> IF n - 4 * (k - 1) < 4 THEN n - 4 * (k - 1) ELSE 4]

AfterAuthors ==
  {"abstract", "keywords", "section", "content", "references", "done"}

AfterAbstract == {"keywords", "section", "content", "references", "done"}

\* C1: the region descriptors of the finished document, in document order,
\* are a 1-column title descriptor, one descriptor per author row (two or
\* more authors only), a 2-column body descriptor before the abstract and
\* the 2-column terminal descriptor, and no other.
C1_DescriptorOrder ==
  pc = "done" =>
    /\ ColumnCounts(body)
         = << 1 >> \o RowWidths(Len(result.authors)) \o << 2, 2 >>
    /\ \E k \in 1..(Len(body) - 1) :
         /\ IsBoundary(body[k])
         /\ body[k].sectPr.cols.num = 2
         /\ body[k + 1].site = "abstract"

\* C2: no author gives no author boundary; one author gives no boundary and
\* 1 + (affiliation lines) centered paragraphs without a descriptor; N >= 2
\* authors give ceil(N/4) author-row boundaries, the k-th carrying
\* min(authors not yet placed, 4) columns and followed by exactly that many
\* author paragraphs.
C2_AuthorRows ==
  pc \in AfterAuthors =>
    LET N      == Len(result.authors)
        breaks == Positions(body, "section_break")
        single == Positions(body, "author_name") \o Positions(body, "affiliation")
        placed == Positions(body, "author")
    IN  /\ N = 0 => breaks = << >> /\ single = << >> /\ placed = << >>
        /\ N = 1 =>
             /\ breaks = << >> /\ placed = << >>
             /\ Len(single) = 1 + Len(result.authors[1].lines)
             /\ \A j \in DOMAIN single :
                  /\ body[single[j]].jc = "center"
                  /\ body[single[j]].sectPr = NoElement
                  /\ Len(body[single[j]].runs) = 1
        /\ N >= 2 =>
             /\ single = << >>
             /\ Len(breaks) = RowCount(N)
             /\ Len(placed) = N
             /\ \A j \in DOMAIN breaks :
                  LET width == RowWidths(N)[j]
                      p     == breaks[j]
                  IN  /\ body[p].sectPr.cols.num = width
                      /\ \A q \in (p + 1)..(p + width) :
                           q <= Len(body) /\ body[q].site = "author"
                      /\ p + width + 1 <= Len(body)
                           => body[p + width + 1].site # "author"

\* five authors: a row of four and a row of one
C2_Witness ==
  /\ pc = "done"
  /\ Len(result.authors) = 5
  /\ [k \in DOMAIN Positions(body, "section_break") |->
        body[Positions(body, "section_break")[k]].sectPr.cols.num] = << 4, 1 >>

\* b holds exactly one document-level region descriptor, as its last
\* element, and it describes the two-column body layout
OneTrailingDescriptor(b) ==
  /\ b # << >>
  /\ \A k \in DOMAIN b : b[k].tag = "sectPr" <=> k = Len(b)
  /\ LET last == b[Len(b)].sectPr
     IN  /\ last.cols.num = 2
         /\ last.cols.space = COL_SPACE_TWIPS
         /\ last.pgSz = [w |-> PAGE_W_TWIPS, h |-> PAGE_H_TWIPS]
         /\ last.pgMar.top = MARGIN_TOP_TWIPS
         /\ last.pgMar.bottom = MARGIN_BOTTOM_TWIPS
         /\ last.pgMar.left = MARGIN_LR_TWIPS
         /\ last.pgMar.right = MARGIN_LR_TWIPS

\* C3: when build_document returns, the body holds exactly one
\* document-level region descriptor, it is the last element and it describes
\* the two-column body layout; set_final_section_two_col yields the same
\* whether or not the body it is given holds a default descriptor.
C3_OneTerminalDescriptor ==
  /\ pc = "done" => OneTrailingDescriptor(body)
  /\ pc = "references" =>
       /\ OneTrailingDescriptor(set_final_section_two_col(body))
       /\ OneTrailingDescriptor(
            set_final_section_two_col(
              SelectSeq(body, LAMBDA e : e.tag # "sectPr")))

\* the document is finished and the template's descriptor, which stood
\* before the title, is gone
C3_Witness ==
  /\ pc = "done"
  /\ Len(body) > 3
  /\ body[1].site = "title"
  /\ body[Len(body)].site = "final"

\* C4: every region descriptor of the finished document other than the
\* terminal one is marked continuous.
C4_AllContinuous ==
  pc = "done" =>
    \A k \in 1..(Len(body) - 1) :
      IsBoundary(body[k]) => body[k].sectPr.type = "continuous"

\* C5: every region boundary is a paragraph with no run that carries only
\* the descriptor; an author-row boundary stands immediately before the
\* first author paragraph of its row, the body boundary immediately before
\* the abstract paragraph, hence directly after the title when there is no
\* author.
C5_BoundaryPlacement ==
  LET breaks == Positions(body, "section_break")
      bodyAt == Positions(body, "body_break")
  IN  /\ \A k \in DOMAIN body :
           IsBoundary(body[k]) =>
             /\ body[k].site \in {"section_break", "body_break"}
             /\ body[k].runs = << >>
             /\ body[k].spacing = NoElement /\ body[k].ind = NoElement
             /\ body[k].jc = NoAttr /\ body[k].tabs = << >>
             /\ ~body[k].keepNext
             /\ k < Len(body)
      /\ \A j \in DOMAIN breaks :
           body[breaks[j] + 1]
             = At("author", make_author_paragraph(result.authors[4 * (j - 1) + 1]))
      /\ \A j \in DOMAIN bodyAt : body[bodyAt[j] + 1].site = "abstract"
      /\ pc \in AfterAbstract =>
           /\ Len(bodyAt) = 1
           /\ Len(Positions(body, "abstract")) = 1
           /\ Len(result.authors) = 0 => body[bodyAt[1] - 1].site = "title"

\* two author rows and the abstract, each behind its boundary
C5_Witness ==
  /\ pc = "done"
  /\ Len(Positions(body, "section_break")) = 2
  /\ Len(Positions(body, "body_break")) = 1
  /\ body[Positions(body, "body_break")[1] + 1].site = "abstract"

\* the level-1 headings among the first s sections
Level1Upto(sections, s) == {k \in 1..s : sections[k].level = 1}

\* the index of the most recent level-1 heading at or before s, or 0
LastLevel1(sections, s) ==
  IF Level1Upto(sections, s) = {} THEN 0
  ELSE CHOOSE k \in Level1Upto(sections, s) :
         \A j \in Level1Upto(sections, s) : j <= k

\* the number the s-th heading is due: the level-1 headings so far, or the
\* level-2 headings since the most recent level-1 heading
DueNumber(sections, s) ==
  IF sections[s].level = 1 THEN Cardinality(Level1Upto(sections, s))
  ELSE Cardinality({k \in (LastLevel1(sections, s) + 1)..s :
                      sections[k].level = 2})

\* the heading paragraphs of b in document order
HeadingParagraphs(b) ==
  SelectSeq(b, LAMBDA e : e.site \in {"heading1", "heading2"})

\* the text of a heading paragraph up to its first period
NumberPrefix(p) ==
  LET t == p.runs[1].text IN SubSeq(t, 1, FirstIndex(t, 1, ".") - 1)

Levels(sections) == [k \in DOMAIN sections |-> sections[k].level]

\* C6: a level-1 section is numbered by the count of level-1 headings seen
\* so far and a level-2 section by the count of level-2 headings since the
\* most recent level-1 heading; the headings are rendered with these numbers
\* as Roman numerals and letters, levels [1,2,2,1,2] as I, A, B, II, A.
C6_SectionNumbering ==
  /\ \A s \in DOMAIN result.sections :
       result.sections[s].number = DueNumber(result.sections, s)
  /\ pc = "done" =>
       LET heads == HeadingParagraphs(body)
       IN  /\ Len(heads) = Len(result.sections)
           /\ \A s \in DOMAIN heads :
                NumberPrefix(heads[s])
                  = IF result.sections[s].level = 1
                    THEN to_roman(DueNumber(result.sections, s))
                    ELSE to_letter(DueNumber(result.sections, s))
           /\ Levels(result.sections) = << 1, 2, 2, 1, 2 >> =>
                [s \in DOMAIN heads |-> NumberPrefix(heads[s])]
                  = << << "I" >>, << "A" >>, << "B" >>, << "I", "I" >>, << "A" >> >>

\* the document with headings of levels 1, 2, 2, 1, 2 is finished
C6_Witness ==
  /\ pc = "done"
  /\ Levels(result.sections) = << 1, 2, 2, 1, 2 >>
  /\ Len(HeadingParagraphs(body)) = 5

\* the equation paragraphs of b in document order
EquationParagraphs(b) == SelectSeq(b, LAMBDA e : e.site = "equation")

\* the number of equation items of the sections
RECURSIVE EquationItems(_)
EquationItems(sections) ==
  IF sections = << >> THEN 0
  ELSE Len(SelectSeq(Head(sections).content, LAMBDA i : i.tag = "equation"))
       + EquationItems(Tail(sections))

\* C7: the k-th equation item in document order is rendered with the number
\* k, starting at 1; the counter is never reset or skipped and only
\* equations advance it.
C7_EquationNumbering ==
  LET eqs == EquationParagraphs(body)
  IN  /\ \A k \in DOMAIN eqs :
           eqs[k].runs[Len(eqs[k].runs)].text = << "(" >> \o Str(k) \o << ")" >>
      /\ pc \in {"section", "content", "references", "done"}
           => equation_counter = Len(eqs)
      /\ pc \in {"references", "done"}
           => Len(eqs) = EquationItems(result.sections)

\* two equations in different sections with a text paragraph between them
C7_Witness ==
  /\ pc = "done"
  /\ Len(EquationParagraphs(body)) = 2
  /\ Len(result.sections) = 2
  /\ \A s \in 1..2 :
       \E i \in DOMAIN result.sections[s].content :
         result.sections[s].content[i].tag = "equation"
  /\ \E k \in DOMAIN body : body[k].site = "default"

(***************************************************************************)
(* Properties of resolve_latex                                             *)
(***************************************************************************)
\* C8: resolve_latex is idempotent: applied to its own output it returns
\* that output.
C8_Idempotent == pc = "latex_twice" => twice = once

\* C9: one application of resolve_latex rewrites \frac{a+b}{c} as (a+b)/(c)
\* and \frac{\frac{a}{b}}{c} as ((a)/(b))/(c).
C9_FractionRule ==
  pc = "latex_once" =>
    /\ text = FracSimple
         => once = << "(", "a", "+", "b", ")", "/", "(", "c", ")" >>
    /\ text = FracNested
         => once = << "(", "(", "a", ")", "/", "(", "b", ")", ")", "/",
                      "(", "c", ")" >>

\* the letters that follow position i of s
RECURSIVE LettersFrom(_, _)
LettersFrom(s, i) ==
  IF i > Len(s) \/ s[i] \notin Letter THEN << >>
  ELSE << s[i] >> \o LettersFrom(s, i + 1)

\* the commands the transliterator knows: the glyph table, the function
\* names and the wrappers
Recognized ==
  {LATEX_GLYPHS[k][1] : k \in DOMAIN LATEX_GLYPHS}
    \cup {LATEX_FUNCTIONS[k] : k \in DOMAIN LATEX_FUNCTIONS}
    \cup {Cmd(<< "t", "e", "x", "t" >>), Cmd(<< "f", "r", "a", "c" >>),
          Cmd(<< "m", "a", "t", "h", "b", "b" >>)}

\* the backslash commands of s that are not recognized
Unrecognized(s) ==
  {c \in {Cmd(LettersFrom(s, i + 1)) : i \in {j \in DOMAIN s : s[j] = BS}} :
     Len(c) > 1 /\ c \notin Recognized}

\* c stands in s as a whole command
Occurs(s, c) ==
  \E i \in DOMAIN s :
    StartsWithAt(s, i, c) /\ LettersFrom(s, i + 1) = Tail(c)

\* C10: every backslash command whose name is in no table stands verbatim,
\* whole, in the output of resolve_latex, also when its name begins with the
\* name of a recognized command.
C10_UnrecognizedVerbatim ==
  pc = "latex_once" => \A c \in Unrecognized(text) : Occurs(once, c)

(***************************************************************************)
(* parse_math_text applied to a text                                       *)
(***************************************************************************)
\* the longest text given to parse_math_text
MaxMathLen == 4

MathAlphabet == {"X", "c", "_", "^", "{", "}"}

\* X_{ab}^c
ScriptExample == << "X", "_", "{", "a", "b", "}", "^", "c" >>

\* x_\alpha: a subscript that is a glyph command
GlyphScriptExample == << "x", "_" >> \o Cmd(<< "a", "l", "p", "h", "a" >>)

MathInputs ==
  {ScriptExample, GlyphScriptExample} \cup SeqsUpTo(MathAlphabet, MaxMathLen)

InitMath ==
  /\ installed = TRUE
  /\ lines = << >>
  /\ funcs = LATEX_FUNCTIONS
  /\ scan = ScanStart
  /\ result = EmptyResult
  /\ pc = "math"
  /\ body = << >>
  /\ max_cols_per_row = 0
  /\ row_start = 0
  /\ sec = 0
  /\ item = 0
  /\ ref = 0
  /\ equation_counter = 0
  /\ text \in MathInputs
  /\ once = << >>
  /\ twice = << >>
  /\ runs = << >>
  /\ indents = NoIndents
  /\ para = NoElement

\* parse_math_text(text)
ParseMathText ==
  /\ pc = "math"
  /\ runs' = parse_math_text(text, BODY_PT, FALSE, FALSE, funcs)
  /\ pc' = "math_done"
  /\ UNCHANGED << parseVars, envVars, body, loopVars, text, once, twice,
                  indents, para >>

NextMath == ParseMathText

SpecMath == InitMath /\ [][NextMath]_vars

\* t holds a subscript or superscript notation: a marker followed by a
\* braced group or by a character that can stand alone
HasNotation(t) ==
  \E i \in 1..(Len(t) - 1) :
    /\ t[i] \in {"_", "^"}
    /\ \/ t[i + 1] = "{" /\ \E j \in (i + 2)..Len(t) : t[j] = "}"
       \/ t[i + 1] \notin WhiteSpace \cup {"{", "}", "_", "^"}

\* the run is plain, a subscript or a superscript
IsPlain(r) == r.vertAlign = << >>
IsSub(r) == r.vertAlign = << "subscript" >>
IsSuper(r) == r.vertAlign = << "superscript" >>

\* the runs rs, read left to right, spell s from position pos on: a plain
\* run by its text, a script run by its marker and its content, braced or,
\* for a content of one character, bare
RECURSIVE Spells(_, _, _)
Spells(rs, s, pos) ==
  IF rs = << >> THEN pos = Len(s) + 1
  ELSE LET r      == Head(rs)
           marker == IF IsSub(r) THEN "_" ELSE "^"
           braced == << marker, "{" >> \o r.text \o << "}" >>
           bare   == << marker >> \o r.text
       IN  IF IsPlain(r)
           THEN /\ r.text # << >>
                /\ StartsWithAt(s, pos, r.text)
                /\ Spells(Tail(rs), s, pos + Len(r.text))
           ELSE \/ /\ StartsWithAt(s, pos, braced)
                   /\ Spells(Tail(rs), s, pos + Len(braced))
                \/ /\ Len(r.text) = 1
                   /\ StartsWithAt(s, pos, bare)
                   /\ Spells(Tail(rs), s, pos + Len(bare))

\* C11: parse_math_text splits the transliterated text into runs in the
\* original order, each plain, subscript or superscript and never both; the
\* content of every _{..} or _x is a subscript run, of every ^{..} or ^x a
\* superscript run, the text between them plain runs; X_{ab}^c gives plain
\* X, subscript ab, superscript c; a text without notation gives exactly one
\* plain run.
C11_ScriptRuns ==
  pc = "math_done" =>
    LET s == resolve_latex(text, funcs)
    IN  /\ \A k \in DOMAIN runs :
             /\ IsPlain(runs[k]) \/ IsSub(runs[k]) \/ IsSuper(runs[k])
             /\ IsPlain(runs[k]) => ~HasNotation(runs[k].text)
        /\ HasNotation(s) => Spells(runs, s, 1)
        /\ ~HasNotation(s) => runs = << PlainRun(s, BODY_PT) >>
        /\ text = ScriptExample =>
             runs = << PlainRun(<< "X" >>, BODY_PT),
                       make_run(<< "a", "b" >>, BODY_PT, FALSE, FALSE, FALSE,
                                TRUE, FALSE),
                       make_run(<< "c" >>, BODY_PT, FALSE, FALSE, FALSE,
                                FALSE, TRUE) >>

\* X_{ab}^c has been split into three runs
C11_Witness ==
  /\ pc = "math_done"
  /\ text = ScriptExample
  /\ Len(runs) = 3


(***************************************************************************)
(* Section headings                                                        *)
(***************************************************************************)
RomanLetters == {"I", "V", "X", "L", "C", "D", "M", "i", "v", "x", "l", "c", "d", "m"}

\* w is a number, a Roman numeral or a single letter
IsNumbering(w) ==
  /\ w # << >>
  /\ \/ \A k \in DOMAIN w : w[k] \in Digit
     \/ \A k \in DOMAIN w : w[k] \in RomanLetters
     \/ Len(w) = 1 /\ w[1] \in Letter

\* whether heading begins with a numbering prefix: a number, a Roman numeral
\* or a single letter, followed by a period
HasNumberingPrefix(heading) ==
  LET k == SkipClass(heading, 1, AlNum)
  IN  k > 1 /\ k <= Len(heading) /\ heading[k] = "."
      /\ IsNumbering(SubSeq(heading, 1, k - 1))

\* heading without its numbering prefix and the blanks after it
WithoutNumbering(heading) ==
  LET k == SkipClass(heading, 1, AlNum)
  IN  IF HasNumberingPrefix(heading)
      THEN SubSeq(heading, SkipClass(heading, k + 1, WhiteSpace), Len(heading))
      ELSE heading

\* the number of the s-th section as its heading shows it
NewNumber(sections, s) ==
  IF sections[s].level = 1 THEN to_roman(sections[s].number)
  ELSE to_letter(sections[s].number)

ExistingPrefixTitle == SubSeq(NumberedH2, 7, Len(NumberedH2))

\* C12: every rendered section heading is its new number, a period, a
\* space, and the heading text without its old numbering prefix; the level-1
\* heading "2. Existing Prefix Title" with number 2 is rendered as
\* "II. Existing Prefix Title".
C12_PrefixReplaced ==
  pc = "done" =>
    LET heads == HeadingParagraphs(body)
    IN  /\ Len(heads) = Len(result.sections)
        /\ \A s \in DOMAIN heads :
             /\ heads[s].runs[1].text
                  = NewNumber(result.sections, s) \o << ".", " " >>
                      \o WithoutNumbering(result.sections[s].heading)
             /\ ( /\ result.sections[s].level = 1
                  /\ result.sections[s].number = 2
                  /\ result.sections[s].heading = SubSeq(NumberedH2, 4, Len(NumberedH2)) )
                  => heads[s].runs[1].text = << "I", "I", ".", " " >> \o ExistingPrefixTitle

\* the letters A to Z in order
Alphabet == SubSeq(AsciiFrom65, 1, 26)

\* C13: every level-2 heading is rendered with a prefix that is the single
\* uppercase letter of its number, A for 1, B for 2 and so on, for every
\* number parse_markdown assigns to a level-2 section.
C13_LetterPrefix ==
  pc = "done" =>
    LET heads == HeadingParagraphs(body)
    IN  \A s \in DOMAIN heads :
          result.sections[s].level = 2 =>
            /\ result.sections[s].number \in DOMAIN Alphabet
            /\ NumberPrefix(heads[s]) = << Alphabet[result.sections[s].number] >>

(***************************************************************************)
(* Content items                                                           *)
(***************************************************************************)
\* the rules for content items but the default one, in their priority order
RulePriority == << "equation", "blockquote", "list", "bold_label", "bullet" >>

ContentSites == {RulePriority[k] : k \in DOMAIN RulePriority} \cup {"default"}

\* whether the pattern of a rule matches a content item
Matches(rule, c) ==
  IF rule = "equation" THEN c.tag = "equation"
  ELSE /\ c.tag # "equation"
       /\ CASE rule = "blockquote" -> StartsWithAt(c.text, 1, << ">", " " >>)
            [] rule = "list" -> LabelMatch(c.text, TRUE) # NoMatch
            [] rule = "bold_label" ->
                 /\ LabelMatch(c.text, FALSE) # NoMatch
                 /\ LabelMatch(c.text, FALSE).rest # << >>
            [] rule = "bullet" -> BulletMatch(c.text)

\* the rule due to a content item: the first in priority order whose pattern
\* matches, else the default rule, or none for an item that is blank once
\* its markdown is stripped
DueRule(c) ==
  LET matching == {k \in DOMAIN RulePriority : Matches(RulePriority[k], c)}
  IN  IF matching # {}
      THEN RulePriority[CHOOSE k \in matching : \A j \in matching : k <= j]
      ELSE IF Strip(strip_markdown(c.text)) = << >> THEN "skipped"
      ELSE "default"

\* the content items of the sections in input order
RECURSIVE AllItems(_)
AllItems(sections) ==
  IF sections = << >> THEN << >>
  ELSE Head(sections).content \o AllItems(Tail(sections))

\* the rules due to the items that are not skipped, in input order
DueRules(sections) ==
  LET items == AllItems(sections)
  IN  SelectSeq([k \in DOMAIN items |-> DueRule(items[k])],
                LAMBDA r : r # "skipped")

\* the content paragraphs of b in document order
ContentParagraphs(b) == SelectSeq(b, LAMBDA e : e.site \in ContentSites)

SitesOf(b) == [k \in DOMAIN b |-> b[k].site]

\* the content items rendered so far: those of the sections before sec and
\* the first item items of section sec
ItemsDone(sections, s, i) ==
  AllItems(SubSeq(sections, 1, s - 1))
    \o (IF s \in DOMAIN sections THEN SubSeq(sections[s].content, 1, i) ELSE << >>)

\* C14: each content item is rendered by exactly one rule, the first that
\* matches in the order equation, blockquote, numbered list with label, bold
\* label with text after it, bullet; an item that matches none is rendered by
\* the default rule, or skipped when blank after stripping; an item makes at
\* most one paragraph.
C14_RulePriority ==
  /\ pc = "done" =>
       SitesOf(ContentParagraphs(body)) = DueRules(result.sections)
  /\ pc = "content" =>
       Len(ContentParagraphs(body)) <= Len(ItemsDone(result.sections, sec, item - 1))

\* a file whose section holds a bold label that nothing follows and a bold
\* blank is rendered: the first by the default rule, the second skipped
C14_Witness ==
  /\ pc = "done"
  /\ lines = Front \o << H2Line, BoldOnlyLine, BoldBlankLine >>
  /\ SitesOf(ContentParagraphs(body)) = << "default" >>

(***************************************************************************)
(* The order of emission                                                   *)
(***************************************************************************)
RECURSIVE Flat(_)
Flat(ss) == IF ss = << >> THEN << >> ELSE Head(ss) \o Flat(Tail(ss))

\* the sites of the author block: nothing, the name and the affiliation
\* lines of the one author, or the rows, each behind its boundary
AuthorSites(authors) ==
  LET n == Len(authors)
  IN  IF n = 0 THEN << >>
      ELSE IF n = 1
      THEN << "author_name" >> \o [k \in DOMAIN authors[1].lines |-> "affiliation"]
      ELSE Flat([k \in 1..RowCount(n) |->
                   << "section_break" >> \o [j \in 1..RowWidths(n)[k] |-> "author"]])

\* the sites of the sections: each heading and then its content items that
\* are not skipped, in input order
SectionSites(sections) ==
  Flat([s \in DOMAIN sections |->
          << IF sections[s].level = 1 THEN "heading1" ELSE "heading2" >>
            \o DueRules(<< sections[s] >>)])

\* the sites of the finished document of a parsed file
EmissionOrder(parsed) ==
  << "title" >> \o AuthorSites(parsed.authors) \o << "body_break", "abstract" >>
    \o (IF parsed.keywords # << >> THEN << "keywords" >> ELSE << >>)
    \o SectionSites(parsed.sections)
    \o << "references_heading" >>
    \o [k \in DOMAIN parsed.references |-> "reference"]
    \o << "final" >>

IsPrefix(s, t) == Len(s) <= Len(t) /\ s = SubSeq(t, 1, Len(s))

\* the elements build_document has emitted: all but those of the template
Emitted(b) == SelectSeq(b, LAMBDA e : e.site # "template")

BuildSteps ==
  {"title", "authors", "author_row", "abstract", "keywords", "section",
   "content", "references", "done"}

\* C15: build_document emits the title paragraph, the author paragraphs or
\* regions, the body-region boundary, the abstract paragraph, the keywords
\* paragraph only when there are keywords, then each section's heading
\* followed by its content items, in input order, then the References
\* heading, one paragraph per reference in input order, and the terminal
\* region descriptor.
C15_EmissionOrder ==
  /\ pc \in BuildSteps =>
       IsPrefix(SitesOf(Emitted(body)), EmissionOrder(result))
  /\ pc = "done" =>
       /\ SitesOf(body) = EmissionOrder(result)
       /\ \A s \in DOMAIN result.sections :
            << HeadingParagraphs(body)[s] >> = HeadingParagraph(result.sections[s])
       /\ \A k \in DOMAIN result.references :
            body[Positions(body, "reference")[k]]
              = At("reference", ReferenceParagraph(k, result.references[k]))

\* a file with two authors, keywords and a section is rendered
C15_Witness ==
  /\ pc = "done"
  /\ SitesOf(body)
       = << "title", "section_break", "author", "author", "body_break",
            "abstract", "keywords", "heading1", "references_heading",
            "final" >>

(***************************************************************************)
(* The reference list                                                      *)
(***************************************************************************)
ReferenceParagraphs(b) == SelectSeq(b, LAMBDA e : e.site = "reference")

\* C16: the k-th reference, counted from 1 in input order, is rendered as
\* one paragraph whose first run is "[k]" and a non-breaking space, with
\* left and hanging indent 354 and exact line spacing 180; there are as many
\* reference paragraphs as references.
C16_ReferenceList ==
  /\ pc \in {"references", "done"} =>
       LET refs == ReferenceParagraphs(body)
       IN  /\ Len(refs) = IF pc = "done" THEN Len(result.references) ELSE ref - 1
           /\ \A k \in DOMAIN refs :
                /\ refs[k].runs[1].text = << "[" >> \o Str(k) \o << "]", "U+00A0" >>
                /\ refs[k].runs[2].text = strip_markdown(result.references[k])
                /\ Len(refs[k].runs) = 2
                /\ refs[k].ind = [firstLine |-> None, left |-> 354, hanging |-> 354]
                /\ refs[k].spacing.line = 180
                /\ refs[k].spacing.lineRule = "exact"
  /\ pc \notin {"references", "done"} => ReferenceParagraphs(body) = << >>

\* two references are rendered as paragraphs beginning [1] and [2]
C16_Witness ==
  /\ pc = "done"
  /\ Len(result.references) = 2
  /\ [k \in 1..2 |-> SubSeq(ReferenceParagraphs(body)[k].runs[1].text, 1, 3)]
       = << << "[", "1", "]" >>, << "[", "2", "]" >> >>

(***************************************************************************)
(* make_paragraph applied to a combination of indents                      *)
(***************************************************************************)
\* the largest indent given to make_paragraph
MaxIndent == 4

\* an indent argument: left out, or a length
IndentValues == {None} \cup 0..MaxIndent

InitParagraph ==
  /\ installed = TRUE
  /\ lines = << >>
  /\ funcs = LATEX_FUNCTIONS
  /\ scan = ScanStart
  /\ result = EmptyResult
  /\ pc = "paragraph"
  /\ body = << >>
  /\ max_cols_per_row = 0
  /\ row_start = 0
  /\ sec = 0
  /\ item = 0
  /\ ref = 0
  /\ equation_counter = 0
  /\ text = << >>
  /\ once = << >>
  /\ twice = << >>
  /\ runs = << >>
  /\ indents \in [first_indent : IndentValues, left_indent : IndentValues,
                  hanging : IndentValues]
  /\ para = NoElement

\* make_paragraph([], first_indent=..., left_indent=..., hanging=...)
MakeParagraph ==
  /\ pc = "paragraph"
  /\ para' = make_paragraph(<< >>, "justify", 0, 80, indents.first_indent,
                            indents.left_indent, indents.hanging, FALSE, 228,
                            "auto", << >>)
  /\ pc' = "paragraph_done"
  /\ UNCHANGED << parseVars, envVars, body, loopVars, text, once, twice, runs,
                  indents >>

NextParagraph == MakeParagraph

SpecParagraph == InitParagraph /\ [][NextParagraph]_vars

\* C17: the paragraph make_paragraph returns never carries both a first-line
\* indent and a hanging indent: with a hanging indent given the first-line
\* indent is left out, and with none given a first-line indent that is
\* supplied is kept.
C17_IndentExclusive ==
  pc = "paragraph_done" =>
    /\ para.ind # NoElement =>
         (para.ind.firstLine = None \/ para.ind.hanging = None)
    /\ indents.hanging # None =>
         /\ para.ind # NoElement
         /\ para.ind.firstLine = None
         /\ para.ind.hanging = indents.hanging
    /\ (indents.hanging = None /\ indents.first_indent # None) =>
         /\ para.ind # NoElement
         /\ para.ind.firstLine = indents.first_indent
         /\ para.ind.hanging = None

\* make_paragraph was given both a first-line and a hanging indent and kept
\* the hanging one
C17_Witness ==
  /\ pc = "paragraph_done"
  /\ indents.first_indent # None
  /\ indents.hanging # None
  /\ para.ind.firstLine = None
  /\ para.ind.hanging = indents.hanging

(***************************************************************************)
(* Startup                                                                 *)
(***************************************************************************)
\* C18: with the docx package unavailable at startup the program ends at
\* the report of the missing dependency with its install guidance (the
\* ImportError handler of the __main__ block), not at an unhandled import
\* error.
C18_MissingDependencyReported ==
  ~installed => pc \in {"import", "missing_dependency"}

(***************************************************************************)
(* What a step does to the elements emitted before it                      *)
(***************************************************************************)
\* s is t with some elements left out
RECURSIVE IsSubsequence(_, _)
IsSubsequence(s, t) ==
  IF s = << >> THEN TRUE
  ELSE IF t = << >> THEN FALSE
  ELSE IF Head(s) = Head(t) THEN IsSubsequence(Tail(s), Tail(t))
  ELSE IsSubsequence(s, Tail(t))

\* the document-level region descriptors of b
BodyDescriptors(b) == SelectSeq(b, LAMBDA e : e.tag = "sectPr")

\* C19: no step of build_document modifies, removes or reorders an element
\* emitted before it; the only element removed or replaced after its
\* creation is the document-level region descriptor, which the last step
\* rebuilds.
C19_NothingMutated ==
  [][/\ IsSubsequence(Emitted(body), Emitted(body'))
     /\ pc \in BuildSteps =>
          IF pc' = "done" /\ pc # "done"
          THEN /\ BodyDescriptors(body') = << BodySectPr("final", FinalSectPr) >>
               /\ BodyDescriptors(body) # BodyDescriptors(body')
               /\ SelectSeq(body', LAMBDA e : e.tag = "p")
                    = SelectSeq(body, LAMBDA e : e.tag = "p")
          ELSE /\ BodyDescriptors(body') = BodyDescriptors(body)
               /\ IsSubsequence(body, body')]_vars

\* the document is finished: boundaries were inserted before paragraphs
\* emitted earlier and the descriptor of the template was replaced
C19_Witness ==
  /\ pc = "done"
  /\ Positions(body, "section_break") # << >>
  /\ Positions(body, "body_break") # << >>
  /\ Positions(body, "template") = << >>
  /\ BodyDescriptors(body) = << BodySectPr("final", FinalSectPr) >>

(***************************************************************************)
(* The unit of the indents                                                 *)
(***************************************************************************)
\* C20: every first-line, left and hanging indent of every paragraph of the
\* document is a length in twips no greater than the width of the body
\* column, 5040, the position of the right tab stop of an equation; so are
\* the left indent of a blockquote and the left and hanging indents of a
\* numbered list item.
C20_IndentsWithinColumn ==
  \A k \in DOMAIN body :
    (body[k].tag = "p" /\ body[k].ind # NoElement) =>
      /\ body[k].ind.firstLine <= 5040
      /\ body[k].ind.left <= 5040
      /\ body[k].ind.hanging <= 5040

(***************************************************************************)
(* Headings without a numbering prefix                                     *)
(***************************************************************************)
\* C21: a section heading whose text does not begin with a numbering prefix
\* (a number, a Roman numeral or a single letter, followed by a period) is
\* rendered as its new number, a period, a space and the whole heading text,
\* no character of it removed.
C21_UnprefixedKept ==
  pc = "done" =>
    \A s \in DOMAIN result.sections :
      ~HasNumberingPrefix(result.sections[s].heading) =>
        /\ s \in DOMAIN HeadingParagraphs(body)
        /\ HeadingParagraphs(body)[s].runs[1].text
             = NewNumber(result.sections, s) \o << ".", " " >>
                 \o result.sections[s].heading
=============================================================================
